---------------------------- MODULE Spec2Model ----------------------------
(***************************************************************************)
(* Retrieval evaluation for a hybrid (text + vector) document search:      *)
(*   - the rank fusion engine   (evaluations/run_eval.py, fuse_rrf),       *)
(*   - the metrics engine       (evaluations/calc_metrics.py, recall_at_k, *)
(*                               mrr, dcg_at_k, ndcg_at_k),                *)
(*   - the evaluation aggregator (calc_metrics.py, summarize_rankings,     *)
(*                               ranking_key, format_markdown),            *)
(*   - the two programs         (run_eval.py main with embed_query,        *)
(*                               calc_metrics.py main with load_queries    *)
(*                               and load_rankings),                       *)
(*   - the document store       (scripts/add_document.py and               *)
(*                               scripts/embed_documents.py).              *)
(*                                                                         *)
(* Python floats are modelled as exact rationals [n, d] (d > 0, lowest     *)
(* terms); the summary is also computed in binary64 (summary_f64), as the  *)
(* interpreter stores it.  Python's None is the empty tuple and a present  *)
(* optional value x is the 1-tuple <<x>>.                                  *)
(***************************************************************************)
EXTENDS Integers, Sequences, FiniteSets, TLC

VARIABLES
    phase,            \* position of the modelled call: which inputs are drawn / what has run
    \* ---- fuse_rrf: parameters, the local sorted list, the return value
    text_results, vector_results, weight_text, weight_vector, rrf_k, limit,
    fused, fused_results,
    \* ---- the next call of fuse_rrf on the same candidate lists (the loop over the weight
    \*      pairs in main): its weight_text, its sorted list and its return value
    fuse_again,
    \* ---- metrics engine: parameters, the function called, its return value
    results, relevant, k, called, ret,
    \* ---- aggregator: parameters, the local dict `grouped` and the return values of
    \*      summarize_rankings, and the table format_markdown renders from the summary
    queries, rankings, k_values, grouped, summary, per_query, markdown,
    \* ---- the summary as the interpreter's floats hold it (summary keeps the exact values),
    \*      and a second run of calc_metrics on the same records in another line order
    summary_f64, rankings_reordered, summary_f64_reordered,
    \* ---- run_eval main: parsed arguments, the model registry read from the database, the
    \*      locals of the loops, and the requests made so far to the embedding provider
    \*      (HTTP POST) and to the text search (SQL, with what the database answered)
    modes, models, weights, selected_queries, model_dims,
    embedding_cache, jsonl_records, query_index, model_index,
    main_text_results, main_vector_results, vector,
    embed_requests, text_searches,
    \* ---- calc_metrics main: the two input files
    data_json, rankings_jsonl,
    \* ---- both programs: the files written to the output directory, and the SystemExit or
    \*      exception that ended the run (None while it runs or after a normal end)
    outdir, exit_status,
    \* ---- the database of the document store (tables documents and document_embeddings, the
    \*      serial of documents.id) and the runs of scripts/add_document.py and
    \*      scripts/embed_documents.py on it: the arguments and locals of the run in
    \*      progress, its requests to the embedding provider, the tables when it started, how
    \*      it ended (in exit_status), and the run before it
    documents, document_embeddings, next_document_id,
    runs_started, script_args, embed_rows, batch_start, provider_calls,
    db_at_start, previous_run

fuseVars    == <<text_results, vector_results, weight_text, weight_vector, rrf_k, limit,
                 fused, fused_results, fuse_again>>
metricVars  == <<results, relevant, k, called, ret>>
summaryVars == <<queries, rankings, k_values, grouped, summary, per_query, markdown,
                 summary_f64, rankings_reordered, summary_f64_reordered>>
runVars     == <<modes, models, weights, selected_queries, model_dims,
                 embedding_cache, jsonl_records, query_index, model_index,
                 main_text_results, main_vector_results, vector,
                 embed_requests, text_searches>>
calcVars    == <<data_json, rankings_jsonl>>
mainVars    == <<runVars, calcVars, outdir, exit_status>>
storeVars   == <<documents, document_embeddings, next_document_id,
                 runs_started, script_args, embed_rows, batch_start, provider_calls,
                 db_at_start, previous_run>>
vars        == <<phase, fuseVars, metricVars, summaryVars, mainVars, storeVars>>

-----------------------------------------------------------------------------
(* Bounds of the model *)

MaxCandidates == 2      \* longest candidate list handed to fuse_rrf
MaxResults    == 3      \* longest results list scored by the metrics engine
MaxRelevant   == 2      \* longest relevance list
MaxK          == 3      \* largest cutoff k
MaxRankings   == 2      \* most ranking records in one rankings file

-----------------------------------------------------------------------------
(* Python values *)

None    == <<>>
Some(x) == <<x>>

\* all sequences over S of length lo..hi
SeqsBetween(S, lo, hi) == UNION {[1..n -> S] : n \in lo..hi}

\* seq[:n] for n >= 0, and for n < 0 (Python drops the last -n elements)
Prefix(seq, n) ==
    IF n >= 0 THEN SubSeq(seq, 1, IF n < Len(seq) THEN n ELSE Len(seq))
              ELSE SubSeq(seq, 1, IF Len(seq) + n > 0 THEN Len(seq) + n ELSE 0)

Range(seq) == {seq[i] : i \in DOMAIN seq}

SetMax(S) == CHOOSE x \in S : \A y \in S : y <= x

\* the orderings of a list: one sequence per permutation of its positions
Orderings(seq) ==
    {[i \in DOMAIN seq |-> seq[p[i]]] :
        p \in {q \in [DOMAIN seq -> DOMAIN seq] : \A i, j \in DOMAIN seq : q[i] = q[j] => i = j}}

-----------------------------------------------------------------------------
(* Floats as exact rationals *)

Abs(x) == IF x < 0 THEN -x ELSE x

RECURSIVE GCD(_, _)
GCD(a, b) == IF b = 0 THEN a ELSE GCD(b, a % b)

Rat(n, d) == LET g == GCD(Abs(n), d) IN [n |-> n \div g, d |-> d \div g]

Zero == Rat(0, 1)
One  == Rat(1, 1)

RatAdd(a, b) ==
    LET l == (a.d \div GCD(a.d, b.d)) * b.d
    IN  Rat(a.n * (l \div a.d) + b.n * (l \div b.d), l)

RatDivInt(a, m) == Rat(a.n, a.d * m)

RatLt(a, b) == a.n * b.d < b.n * a.d
RatLe(a, b) == a.n * b.d <= b.n * a.d

\* round(x, digits) in units of 10^-digits, half to even, by long division
RECURSIVE Shift(_, _, _)
Shift(n, d, digits) ==      \* <<floor(n * 10^digits / d), remainder>> for n >= 0
    IF digits = 0 THEN <<n \div d, n % d>>
    ELSE LET p == Shift(n, d, digits - 1)
         IN  <<p[1] * 10 + (p[2] * 10) \div d, (p[2] * 10) % d>>

RoundTo(x, digits) ==
    LET p    == Shift(Abs(x.n), x.d, digits)
        up   == \/ 2 * p[2] > x.d
                \/ 2 * p[2] = x.d /\ p[1] % 2 = 1
        mag  == IF up THEN p[1] + 1 ELSE p[1]
    IN  IF x.n < 0 THEN -mag ELSE mag

-----------------------------------------------------------------------------
(* Rank fusion engine: run_eval.py *)

DocUniverse   == {3, 5, 9}
FusionWeights == {0, 1, 2}      \* the floats 0.0, 1.0, 2.0 of --rrf-weights
RrfKs         == {1, 60}        \* --rrf-k (default 60)
Limits        == -1 .. Cardinality(DocUniverse)      \* --limit

\* provider output: ids in rank order.  A provider returns each document once; two lists
\* that repeat an id stand for callers that hand fuse_rrf other lists.
RepeatingLists == {<<3, 3>>, <<5, 3, 5>>}
\* ids 3 and 11 hash to the same slot of an 8-slot set
CollidingLists == {<<11, 3>>, <<3, 11>>}
CandidateLists ==
    {s \in SeqsBetween(DocUniverse, 0, MaxCandidates) :
        \A i, j \in DOMAIN s : s[i] = s[j] => i = j} \cup RepeatingLists \cup CollidingLists

\* run_text_search / run_vector_search: rows in provider order, rank = 1-based index
\* (title, score, distance and similarity are carried through unread and left out)
SearchRows(ids) == [i \in DOMAIN ids |-> [rank |-> i, document_id |-> ids[i]]]

\* the dict comprehension of fuse_rrf: a later item with the same id replaces an earlier one
Lookup(items) ==
    [d \in {items[i].document_id : i \in DOMAIN items} |->
        items[SetMax({i \in DOMAIN items : items[i].document_id = d})].rank]

\* the keys of the dict comprehension in insertion order: ids by first occurrence
RECURSIVE LookupKeysFrom(_, _)
LookupKeysFrom(keys, items) ==
    IF items = <<>> THEN keys
    ELSE LookupKeysFrom(IF \E i \in DOMAIN keys : keys[i] = Head(items).document_id
                           THEN keys ELSE Append(keys, Head(items).document_id),
                        Tail(items))

LookupKeys(items) == LookupKeysFrom(<<>>, items)

\* A set of the interpreter (CPython 3.11, which compiled this repository's .pyc files) is
\* an open-addressing hash table: `mask` + 1 slots, `slots` maps each used slot to its key.
\* The hash of a small non-negative int is the int.  Nothing is ever removed from the sets
\* of fuse_rrf, so a slot is either unused or holds a key.
EmptySet == [mask |-> 7, slots |-> <<>>]

SetUsed(so) == Cardinality(DOMAIN so.slots)

\* the slot a lookup of key ends in: the slot that holds key or the first unused slot on the
\* probe sequence (up to 9 linear probes when they fit in the table, then i*5 + 1 + perturb)
RECURSIVE ProbeFrom(_, _, _, _, _)
ProbeFrom(slots, mask, key, i, perturb) ==
    LET probes == IF i + 9 <= mask THEN 9 ELSE 0
        stops  == {j \in 0..probes : (i + j) \notin DOMAIN slots \/ slots[i + j] = key}
    IN  IF stops # {} THEN i + (CHOOSE j \in stops : \A j2 \in stops : j <= j2)
        ELSE ProbeFrom(slots, mask, key,
                       (i * 5 + 1 + (perturb \div 32)) % (mask + 1), perturb \div 32)

\* iteration over a set: the keys in slot order
RECURSIVE SlotOrder(_, _)
SlotOrder(so, i) ==
    IF i > so.mask THEN <<>>
    ELSE (IF i \in DOMAIN so.slots THEN <<so.slots[i]>> ELSE <<>>) \o SlotOrder(so, i + 1)

SetIter(so) == SlotOrder(so, 0)

\* insertion of keys known to be absent (set_insert_clean), one after the other
RECURSIVE SetInsertClean(_, _)
SetInsertClean(so, keys) ==
    IF keys = <<>> THEN so
    ELSE LET key  == Head(keys)
             slot == ProbeFrom(so.slots, so.mask, key, key % (so.mask + 1), key)
         IN  SetInsertClean([so EXCEPT !.slots = (slot :> key) @@ @], Tail(keys))

RECURSIVE NewSize(_, _)
NewSize(size, minused) == IF size <= minused THEN NewSize(size * 2, minused) ELSE size

\* set_table_resize: a table of the first power of two above minused (8 at least), refilled
\* in the slot order of the old table
SetTableResize(so, minused) ==
    SetInsertClean([mask |-> NewSize(8, minused) - 1, slots |-> <<>>], SetIter(so))

\* set_add_entry: nothing if the key is there, else the key goes to the unused slot found
\* and the table grows once it is three fifths full
SetAddEntry(so, key) ==
    LET slot == ProbeFrom(so.slots, so.mask, key, key % (so.mask + 1), key)
    IN  IF slot \in DOMAIN so.slots THEN so
        ELSE LET added == [so EXCEPT !.slots = (slot :> key) @@ @]
             IN  IF SetUsed(added) * 5 < so.mask * 3 THEN added
                 ELSE SetTableResize(added, SetUsed(added) * 4)

RECURSIVE SetAddAll(_, _)
SetAddAll(so, keys) ==
    IF keys = <<>> THEN so ELSE SetAddAll(SetAddEntry(so, Head(keys)), Tail(keys))

\* one resize ahead of an update with n keys
SetPresize(so, n) ==
    IF (SetUsed(so) + n) * 5 >= so.mask * 3
       THEN SetTableResize(so, (SetUsed(so) + n) * 2) ELSE so

\* set(d) for a dict d: the keys are added in the dict's order
SetFromDict(keys) == SetAddAll(SetPresize(EmptySet, Len(keys)), keys)

\* set_merge: update of so with the set other
SetMerge(so, other) ==
    IF SetUsed(other) = 0 THEN so
    ELSE LET pre == SetPresize(so, SetUsed(other))
         IN  IF SetUsed(pre) = 0 /\ pre.mask = other.mask THEN other
             ELSE IF SetUsed(pre) = 0 THEN SetInsertClean(pre, SetIter(other))
             ELSE SetAddAll(pre, SetIter(other))

\* a | b: a copy of a, updated with b
SetOr(a, b) == SetMerge(SetMerge(EmptySet, a), b)

\* the ids taken as the two key lists one after the other, with no set in between
DocIdsMutConcat(text_keys, vector_keys) == text_keys \o vector_keys

DocIdsMutIntersect(text_keys, vector_keys) ==
    SelectSeq(SetIter(SetOr(SetFromDict(text_keys), SetFromDict(vector_keys))),
              LAMBDA d : /\ \E i \in DOMAIN text_keys : text_keys[i] = d
                         /\ \E i \in DOMAIN vector_keys : vector_keys[i] = d)

\* doc_ids = set(text_lookup) | set(vector_lookup), as the sequence `for doc_id in doc_ids`
\* goes through
DocIds(text_keys, vector_keys) ==
    SetIter(SetOr(SetFromDict(text_keys), SetFromDict(vector_keys)))

ScoreMutTextSubtracted(doc_id, text_lookup, vector_lookup, wt, wv, rk) ==
    RatAdd(IF doc_id \in DOMAIN text_lookup
              THEN Rat(0 - wt, rk + text_lookup[doc_id]) ELSE Zero,
           IF doc_id \in DOMAIN vector_lookup
              THEN Rat(wv, rk + vector_lookup[doc_id]) ELSE Zero)

ScoreMutZeroBased(doc_id, text_lookup, vector_lookup, wt, wv, rk) ==
    RatAdd(IF doc_id \in DOMAIN text_lookup
              THEN Rat(wt, rk + text_lookup[doc_id] - 1) ELSE Zero,
           IF doc_id \in DOMAIN vector_lookup
              THEN Rat(wv, rk + vector_lookup[doc_id] - 1) ELSE Zero)

\* score = 0.0, plus weight_text / (rrf_k + rank) when in the text lookup,
\* plus weight_vector / (rrf_k + rank) when in the vector lookup
Score(doc_id, text_lookup, vector_lookup, wt, wv, rk) ==
    RatAdd(IF doc_id \in DOMAIN text_lookup
              THEN Rat(wt, rk + text_lookup[doc_id]) ELSE Zero,
           IF doc_id \in DOMAIN vector_lookup
              THEN Rat(wv, rk + vector_lookup[doc_id]) ELSE Zero)

\* one tuple of the list `fused`: (doc_id, score, extra)
FusedItem(doc_id, text_lookup, vector_lookup, wt, wv, rk) ==
    [document_id |-> doc_id,
     score       |-> Score(doc_id, text_lookup, vector_lookup, wt, wv, rk),
     text_rank   |-> IF doc_id \in DOMAIN text_lookup
                        THEN Some(text_lookup[doc_id]) ELSE None,
     vector_rank |-> IF doc_id \in DOMAIN vector_lookup
                        THEN Some(vector_lookup[doc_id]) ELSE None]

\* list.sort(key=score, reverse=True): stable, equal scores keep their order
RECURSIVE InsertDescMutTiesFirst(_, _)
InsertDescMutTiesFirst(sorted, item) ==
    IF sorted = <<>> THEN <<item>>
    ELSE IF RatLe(Head(sorted).score, item.score)
         THEN <<item>> \o sorted
         ELSE <<Head(sorted)>> \o InsertDescMutTiesFirst(Tail(sorted), item)

RECURSIVE InsertDesc(_, _)
InsertDesc(sorted, item) ==
    IF sorted = <<>> THEN <<item>>
    ELSE IF RatLt(Head(sorted).score, item.score)
         THEN <<item>> \o sorted
         ELSE <<Head(sorted)>> \o InsertDesc(Tail(sorted), item)

RECURSIVE SortDescFrom(_, _)
SortDescFrom(sorted, rest) ==
    IF rest = <<>> THEN sorted
    ELSE SortDescFrom(InsertDesc(sorted, Head(rest)), Tail(rest))

SortDesc(list) == SortDescFrom(<<>>, list)

\* the returned rows: enumerate(fused[:limit], start=1)
FusedRows(sorted, lim) ==
    LET cut == Prefix(sorted, lim)
    IN  [i \in DOMAIN cut |->
            [rank        |-> i,
             document_id |-> cut[i].document_id,
             rrf_score   |-> RoundTo(cut[i].score, 8),
             text_rank   |-> cut[i].text_rank,
             vector_rank |-> cut[i].vector_rank]]


\* the list `fused` before the sort: one tuple per id, in the traversal order of the set doc_ids
Unsorted(tr, vr, wt, wv, rk) ==
    LET order == DocIds(LookupKeys(tr), LookupKeys(vr))
    IN  [i \in DOMAIN order |-> FusedItem(order[i], Lookup(tr), Lookup(vr), wt, wv, rk)]

FuseRrfMutCutFirst(tr, vr, wt, wv, rk, lim) ==
    LET f == SortDesc(Prefix(Unsorted(tr, vr, wt, wv, rk), lim))
    IN  [fused |-> f, results |-> FusedRows(f, lim)]

\* fuse_rrf: build, sort, then cut; `fused` is the sorted local list, `results` what is returned
FuseRrf(tr, vr, wt, wv, rk, lim) ==
    LET f == SortDesc(Unsorted(tr, vr, wt, wv, rk))
    IN  [fused |-> f, results |-> FusedRows(f, lim)]

-----------------------------------------------------------------------------
(* Metrics engine: calc_metrics.py *)

MetricDocs == {1, 3, 5}

\* 1000 / log2(idx + 1), to the nearest integer: the gain of a hit at rank idx in thousandths
DiscountMilli == <<1000, 631, 500, 431, 387, 356, 333, 315, 301, 289>>

Discount(idx) == Rat(DiscountMilli[idx], 1000)

RecallAtKMutOnlyKth(res, rel, kk) ==
    IF rel = <<>> THEN Zero
    ELSE Rat(Cardinality({i \in DOMAIN res : i = kk /\ res[i] \in Range(rel)}), Len(rel))

RecallAtKMutNoCut(res, rel, kk) ==
    IF rel = <<>> THEN Zero
    ELSE Rat(Cardinality({i \in DOMAIN res : res[i] \in Range(rel)}), Len(rel))

\* recall_at_k: hits counted per position of results[:k], divided by len(relevant)
RecallAtK(res, rel, kk) ==
    IF rel = <<>> THEN Zero
    ELSE LET cut == Prefix(res, kk)
         IN  Rat(Cardinality({i \in DOMAIN cut : cut[i] \in Range(rel)}), Len(rel))

MrrMutLastHit(res, rel) ==
    LET hits == {i \in DOMAIN res : res[i] \in Range(rel)}
    IN  IF hits = {} THEN Zero ELSE Rat(1, SetMax(hits))

\* mrr: 1.0 / idx of the first result that is in set(relevant), else 0.0
Mrr(res, rel) ==
    LET hits == {i \in DOMAIN res : res[i] \in Range(rel)}
    IN  IF hits = {} THEN Zero
        ELSE Rat(1, CHOOSE i \in hits : \A j \in hits : i <= j)

\* the loop of dcg_at_k over enumerate(results[:k], start=1), from index idx on
RECURSIVE DcgLoop(_, _, _)
DcgLoop(cut, rel_set, idx) ==
    IF idx > Len(cut) THEN Zero
    ELSE RatAdd(IF cut[idx] \in rel_set THEN Discount(idx) ELSE Zero,
                DcgLoop(cut, rel_set, idx + 1))

DcgAtK(res, rel, kk) == DcgLoop(Prefix(res, kk), Range(rel), 1)

NdcgAtKMutIdealAll(res, rel, kk) ==
    IF rel = <<>> THEN Zero
    ELSE LET ideal == DcgAtK(rel, rel, Len(rel))
         IN  IF ideal.n = 0 THEN Zero
             ELSE Rat(DcgAtK(res, rel, kk).n * ideal.d, DcgAtK(res, rel, kk).d * ideal.n)

NdcgAtKMutGainFromPrefix(res, rel, kk) ==
    IF rel = <<>> THEN Zero
    ELSE LET ideal_order == Prefix(rel, kk)
             ideal       == DcgAtK(ideal_order, ideal_order, kk)
             dcg         == DcgAtK(res, ideal_order, kk)
         IN  IF ideal.n = 0 THEN Zero
             ELSE Rat(dcg.n * ideal.d, dcg.d * ideal.n)

NdcgAtKMutIdealShort(res, rel, kk) ==
    IF rel = <<>> THEN Zero
    ELSE LET ideal_order == Prefix(rel, kk - 1)
             ideal       == DcgAtK(ideal_order, ideal_order, kk)
             dcg         == DcgAtK(res, rel, kk)
         IN  IF ideal.n = 0 THEN Zero
             ELSE Rat(dcg.n * ideal.d, dcg.d * ideal.n)

\* ndcg_at_k: dcg of the results over the dcg of relevant[:k] scored against itself
NdcgAtK(res, rel, kk) ==
    IF rel = <<>> THEN Zero
    ELSE LET ideal_order == Prefix(rel, kk)
             ideal       == DcgAtK(ideal_order, ideal_order, kk)
             dcg         == DcgAtK(res, rel, kk)
         IN  IF ideal.n = 0 THEN Zero
             ELSE Rat(dcg.n * ideal.d, dcg.d * ideal.n)

-----------------------------------------------------------------------------
(* Evaluation aggregator: calc_metrics.py *)

\* A dict is a function; the empty dict is the function with the empty domain.
EmptyDict == <<>>
DictSet(dict, key, value) == (key :> value) @@ dict

\* "sep".join(parts)
RECURSIVE Join(_, _)
Join(parts, sep) ==
    IF parts = <<>> THEN ""
    ELSE IF Len(parts) = 1 THEN parts[1]
    ELSE parts[1] \o sep \o Join(Tail(parts), sep)

\* str() of a float with an integral value, as an f-string renders it: 1.0 -> "1.0"
FloatStr(w) == ToString(w) \o ".0"

\* truth value of an Optional[str]: None and "" are false
StrTruthy(opt) == opt # None /\ opt[1] # ""

\* ranking_key: docset|mode, then |model if truthy, then |text=..:vector=.. if weights are given
RankingKey(ranking) ==
    Join(<<ranking.docset, ranking.mode>>
         \o (IF StrTruthy(ranking.model) THEN <<ranking.model[1]>> ELSE <<>>)
         \o (IF ranking.rrf_weights # None
                THEN <<"text=" \o FloatStr(ranking.rrf_weights[1].text)
                       \o ":vector=" \o FloatStr(ranking.rrf_weights[1].vector)>>
                ELSE <<>>),
         "|")

\* grouped[key].append(ranking) on a defaultdict(list); the dict keeps insertion order and is
\* a sequence of [key, runs] here
GroupAppend(g, key, ranking) ==
    IF \E i \in DOMAIN g : g[i].key = key
       THEN [i \in DOMAIN g |->
                IF g[i].key = key THEN [g[i] EXCEPT !.runs = Append(@, ranking)] ELSE g[i]]
       ELSE Append(g, [key |-> key, runs |-> <<ranking>>])

RECURSIVE GroupLoop(_, _)
GroupLoop(g, rest) ==
    IF rest = <<>> THEN g
    ELSE GroupLoop(GroupAppend(g, RankingKey(Head(rest)), Head(rest)), Tail(rest))

\* the first loop of summarize_rankings
Grouped(rs) == GroupLoop(<<>>, rs)

MetricNames(ks) ==
    {"MRR"} \cup {"recall@" \o ToString(ks[i]) : i \in DOMAIN ks}
            \cup {"nDCG@" \o ToString(ks[i]) : i \in DOMAIN ks}

\* query_result of one ranking whose query is registered
QueryResult(qs, ranking, ks) ==
    LET rel_ids == qs[ranking.slug].relevant_ids
        rel     == IF ranking.docset \in DOMAIN rel_ids THEN rel_ids[ranking.docset] ELSE <<>>
        cutoff(name, prefix) == CHOOSE i \in DOMAIN ks : name = prefix \o ToString(ks[i])
    IN  [name \in MetricNames(ks) |->
            IF name = "MRR" THEN Mrr(ranking.results, rel)
            ELSE IF \E i \in DOMAIN ks : name = "recall@" \o ToString(ks[i])
                 THEN RecallAtK(ranking.results, rel, ks[cutoff(name, "recall@")])
                 ELSE NdcgAtK(ranking.results, rel, ks[cutoff(name, "nDCG@")])]

ContributorsMutSkipEmpty(qs, runs) ==
    SelectSeq(runs, LAMBDA ranking :
        /\ ranking.slug \in DOMAIN qs
        /\ ranking.docset \in DOMAIN qs[ranking.slug].relevant_ids
        /\ qs[ranking.slug].relevant_ids[ranking.docset] # <<>>)

\* the rankings of a group that are not skipped: queries.get(slug) is not None
Contributors(qs, runs) == SelectSeq(runs, LAMBDA ranking : ranking.slug \in DOMAIN qs)

\* sum(vals), from 0, in list order
RECURSIVE Sum(_)
Sum(vals) == IF vals = <<>> THEN Zero ELSE RatAdd(Sum(SubSeq(vals, 1, Len(vals) - 1)), vals[Len(vals)])

\* sum(vals) / len(vals)
Mean(vals) == RatDivInt(Sum(vals), Len(vals))

GroupSummaryMutCountSkipped(qs, runs, ks) ==
    LET c == Contributors(qs, runs)
    IN  IF c = <<>> THEN EmptyDict
        ELSE [name \in MetricNames(ks) |->
                 RatDivInt(Sum([i \in DOMAIN c |-> QueryResult(qs, c[i], ks)[name]]), Len(runs))]

\* summary[key] for one group: the dict comprehension over `values`, which has a metric
\* only if some ranking of the group contributed
GroupSummary(qs, runs, ks) ==
    LET c == Contributors(qs, runs)
    IN  IF c = <<>> THEN EmptyDict
        ELSE [name \in MetricNames(ks) |->
                 Mean([i \in DOMAIN c |-> QueryResult(qs, c[i], ks)[name]])]

RECURSIVE PerQueryLoopMutKeepSkipped(_, _, _, _, _)
PerQueryLoopMutKeepSkipped(pq, qs, key, runs, ks) ==
    IF runs = <<>> THEN pq
    ELSE LET ranking == Head(runs)
         IN  PerQueryLoopMutKeepSkipped(
                 DictSet(pq, key \o "|" \o ranking.slug,
                         IF ranking.slug \in DOMAIN qs
                            THEN QueryResult(qs, ranking, ks)
                            ELSE [name \in MetricNames(ks) |-> Zero]),
                 qs, key, Tail(runs), ks)

\* per_query after the inner loop over one group
RECURSIVE PerQueryLoop(_, _, _, _, _)
PerQueryLoop(pq, qs, key, runs, ks) ==
    IF runs = <<>> THEN pq
    ELSE LET ranking == Head(runs)
         IN  PerQueryLoop(IF ranking.slug \in DOMAIN qs
                             THEN DictSet(pq, key \o "|" \o ranking.slug,
                                          QueryResult(qs, ranking, ks))
                             ELSE pq,
                          qs, key, Tail(runs), ks)

\* the loop over grouped.items()
RECURSIVE SummaryLoop(_, _, _, _)
SummaryLoop(acc, qs, g, ks) ==
    IF g = <<>> THEN acc
    ELSE SummaryLoop(
            [summary   |-> DictSet(acc.summary, Head(g).key, GroupSummary(qs, Head(g).runs, ks)),
             per_query |-> PerQueryLoop(acc.per_query, qs, Head(g).key, Head(g).runs, ks)],
            qs, Tail(g), ks)

\* summarize_rankings
SummarizeRankings(qs, rs, ks) ==
    SummaryLoop([summary |-> EmptyDict, per_query |-> EmptyDict], qs, Grouped(rs), ks)

\* f"{x:.3f}" of a value >= 0
Pad3(m) == IF m < 10 THEN "00" \o ToString(m)
           ELSE IF m < 100 THEN "0" \o ToString(m) ELSE ToString(m)
Format3f(x) ==
    LET milli == RoundTo(x, 3) IN ToString(milli \div 1000) \o "." \o Pad3(milli % 1000)

DictGet(dict, key, default) == IF key \in DOMAIN dict THEN dict[key] ELSE default

\* one table line of format_markdown
MarkdownRow(key, metrics, ks) ==
    "| " \o Join(<<key, Format3f(DictGet(metrics, "MRR", Zero))>>
                 \o [i \in DOMAIN ks |->
                        Format3f(DictGet(metrics, "recall@" \o ToString(ks[i]), Zero))]
                 \o [i \in DOMAIN ks |->
                        Format3f(DictGet(metrics, "nDCG@" \o ToString(ks[i]), Zero))],
                 " | ") \o " |"

RECURSIVE Repeat(_, _)
Repeat(str, n) == IF n = 0 THEN "" ELSE str \o Repeat(str, n - 1)

\* format_markdown: the header line, the rule under it and one line per key of the summary.
\* sorted() only fixes the order of the lines; they are kept by key here.
FormatMarkdown(summ, ks) ==
    LET headers == <<"Condition", "MRR">>
                   \o [i \in DOMAIN ks |-> "recall@" \o ToString(ks[i])]
                   \o [i \in DOMAIN ks |-> "nDCG@" \o ToString(ks[i])]
    IN  [header |-> "| " \o Join(headers, " | ") \o " |",
         rule   |-> "|" \o Repeat("---|", Len(headers)),
         rows   |-> [key \in DOMAIN summ |-> MarkdownRow(key, summ[key], ks)]]

-----------------------------------------------------------------------------
(* The floats of the interpreter: IEEE 754 binary64, round to nearest, ties to even.  *)
(* A value x > 0 is [exp, hi, lo]: its 53 binary digits are the number                *)
(* hi * 2^27 + lo (2^25 <= hi < 2^26, 0 <= lo < 2^27) and x = that number * 2^(exp-52). *)
(* Only values >= 0 in the normal range occur in the metrics.                          *)

Half == 2^27        \* the digits are held in a high and a low part of at most 27 digits

F64Zero == [exp |-> 0, hi |-> 0, lo |-> 0]

RECURSIVE BitLength(_)
BitLength(n) == IF n = 0 THEN 0 ELSE 1 + BitLength(n \div 2)

\* float(n) for an int 0 <= n < 2^26
F64FromInt(n) ==
    IF n = 0 THEN F64Zero
    ELSE [exp |-> BitLength(n) - 1, hi |-> n * 2^(26 - BitLength(n)), lo |-> 0]

\* h * 2^27 + l shifted right by s digits; the last digit is set if a 1 was shifted out
ShiftRightSticky(h, l, s) ==
    LET out  == IF s = 0 THEN <<h, l, FALSE>>
                ELSE IF s < 27
                     THEN <<h \div 2^s, (l \div 2^s) + (h % 2^s) * 2^(27 - s), l % 2^s # 0>>
                ELSE IF s < 57
                     THEN <<0, h \div 2^(s - 27), (h % 2^(s - 27) # 0) \/ l # 0>>
                ELSE <<0, 0, h # 0 \/ l # 0>>
    IN  <<out[1], IF out[3] /\ out[2] % 2 = 0 THEN out[2] + 1 ELSE out[2]>>

\* the float nearest to (h * 2^27 + l) * 2^(exp - 55), where the number has 56 digits
\* (2^28 <= h < 2^29) and its last digit stands for everything below it
F64Round(h, l, exp) ==
    LET below == l % 8
        lo    == (l \div 8) + (h % 8) * 2^24
        hi    == h \div 8
        up    == below > 4 \/ (below = 4 /\ lo % 2 = 1)
    IN  IF ~ up THEN [exp |-> exp, hi |-> hi, lo |-> lo]
        ELSE IF lo + 1 < Half THEN [exp |-> exp, hi |-> hi, lo |-> lo + 1]
        ELSE IF hi + 1 < 2^26 THEN [exp |-> exp, hi |-> hi + 1, lo |-> 0]
        ELSE [exp |-> exp + 1, hi |-> 2^25, lo |-> 0]

\* x + y
F64Add(x, y) ==
    IF x = F64Zero THEN y
    ELSE IF y = F64Zero THEN x
    ELSE LET big   == IF x.exp >= y.exp THEN x ELSE y
             small == IF x.exp >= y.exp THEN y ELSE x
             a     == <<big.hi * 8 + (big.lo * 8) \div Half, (big.lo * 8) % Half>>
             b     == ShiftRightSticky(small.hi * 8 + (small.lo * 8) \div Half,
                                       (small.lo * 8) % Half, big.exp - small.exp)
             l     == a[2] + b[2]
             h     == a[1] + b[1] + l \div Half
         IN  IF h >= 2^29
                THEN LET s == ShiftRightSticky(h, l % Half, 1)
                     IN  F64Round(s[1], s[2], big.exp + 1)
                ELSE F64Round(h, l % Half, big.exp)

\* one digit of a long division: s = <<rh, rl, qh, ql>>, remainder and quotient so far,
\* d = <<dh, dl>> the divisor; the remainder is below twice the divisor
DivStep(s, d) ==
    LET q  == s[1] > d[1] \/ (s[1] = d[1] /\ s[2] >= d[2])
        l  == IF q THEN s[2] - d[2] ELSE s[2]
        h  == IF q THEN s[1] - d[1] - (IF l < 0 THEN 1 ELSE 0) ELSE s[1]
        l2 == 2 * (IF l < 0 THEN l + Half ELSE l)
        ql == 2 * s[4] + (IF q THEN 1 ELSE 0)
    IN  <<2 * h + l2 \div Half, l2 % Half, 2 * s[3] + ql \div Half, ql % Half>>

\* digits five at a time until the quotient has its 55 digits (its first digit is a 1)
RECURSIVE DivLoop(_, _)
DivLoop(s, d) ==
    IF s[3] >= 2^27 THEN s
    ELSE DivLoop(DivStep(DivStep(DivStep(DivStep(DivStep(s, d), d), d), d), d), d)

\* x / y for y > 0: 55 digits of the quotient and one more for a remainder that is left
F64Div(x, y) ==
    IF x = F64Zero THEN F64Zero
    ELSE LET ge  == x.hi > y.hi \/ (x.hi = y.hi /\ x.lo >= y.lo)
             rem == IF ge THEN <<x.hi, x.lo>>
                          ELSE <<2 * x.hi + (2 * x.lo) \div Half, (2 * x.lo) % Half>>
             out == DivLoop(<<rem[1], rem[2], 0, 0>>, <<y.hi, y.lo>>)
             ql  == 2 * out[4] + (IF out[1] # 0 \/ out[2] # 0 THEN 1 ELSE 0)
         IN  F64Round(2 * out[3] + ql \div Half, ql % Half,
                      IF ge THEN x.exp - y.exp ELSE x.exp - y.exp - 1)

\* 1.0 / math.log2(idx + 1) for idx = 1..5, as the interpreter computes it:
\* 1.0, 0x1.430939835353ep-1, 0.5, 0x1.b903469050f73p-2, 0x1.8c23246dc0aa0p-2
F64Discount(idx) ==
    CASE idx = 1 -> F64FromInt(1)
      [] idx = 2 -> [exp |-> -1, hi |-> 42340979, lo |-> 3487038]
      [] idx = 3 -> F64Div(F64FromInt(1), F64FromInt(2))
      [] idx = 4 -> [exp |-> -2, hi |-> 57804429, lo |-> 17108851]
      [] idx = 5 -> [exp |-> -2, hi |-> 51922504, lo |-> 115083936]

\* recall_at_k in floats: hits / len(relevant)
F64RecallAtK(res, rel, kk) ==
    IF rel = <<>> THEN F64Zero
    ELSE LET cut == Prefix(res, kk)
         IN  F64Div(F64FromInt(Cardinality({i \in DOMAIN cut : cut[i] \in Range(rel)})),
                    F64FromInt(Len(rel)))

\* mrr in floats: 1.0 / idx
F64Mrr(res, rel) ==
    LET hits == {i \in DOMAIN res : res[i] \in Range(rel)}
    IN  IF hits = {} THEN F64Zero
        ELSE F64Div(F64FromInt(1), F64FromInt(CHOOSE i \in hits : \A j \in hits : i <= j))

\* dcg_at_k in floats: score += 1.0 / denom, from index idx on
RECURSIVE F64DcgLoop(_, _, _, _)
F64DcgLoop(score, cut, rel_set, idx) ==
    IF idx > Len(cut) THEN score
    ELSE F64DcgLoop(IF cut[idx] \in rel_set THEN F64Add(score, F64Discount(idx)) ELSE score,
                    cut, rel_set, idx + 1)

F64DcgAtK(res, rel, kk) == F64DcgLoop(F64Zero, Prefix(res, kk), Range(rel), 1)

\* ndcg_at_k in floats
F64NdcgAtK(res, rel, kk) ==
    IF rel = <<>> THEN F64Zero
    ELSE LET ideal_order == Prefix(rel, kk)
             ideal       == F64DcgAtK(ideal_order, ideal_order, kk)
         IN  IF ideal = F64Zero THEN F64Zero
             ELSE F64Div(F64DcgAtK(res, rel, kk), ideal)

\* query_result of one ranking in floats
F64QueryResult(qs, ranking, ks) ==
    LET rel_ids == qs[ranking.slug].relevant_ids
        rel     == IF ranking.docset \in DOMAIN rel_ids THEN rel_ids[ranking.docset] ELSE <<>>
        cutoff(name, prefix) == CHOOSE i \in DOMAIN ks : name = prefix \o ToString(ks[i])
    IN  [name \in MetricNames(ks) |->
            IF name = "MRR" THEN F64Mrr(ranking.results, rel)
            ELSE IF \E i \in DOMAIN ks : name = "recall@" \o ToString(ks[i])
                 THEN F64RecallAtK(ranking.results, rel, ks[cutoff(name, "recall@")])
                 ELSE F64NdcgAtK(ranking.results, rel, ks[cutoff(name, "nDCG@")])]

\* sum(vals): the int 0, then one float addition per value, in list order
RECURSIVE F64Sum(_)
F64Sum(vals) ==
    IF vals = <<>> THEN F64Zero
    ELSE F64Add(F64Sum(SubSeq(vals, 1, Len(vals) - 1)), vals[Len(vals)])

\* sum(vals) / len(vals)
F64Mean(vals) == F64Div(F64Sum(vals), F64FromInt(Len(vals)))

\* summary[key] for one group in floats
F64GroupSummary(qs, runs, ks) ==
    LET c == Contributors(qs, runs)
    IN  IF c = <<>> THEN EmptyDict
        ELSE [name \in MetricNames(ks) |->
                 F64Mean([i \in DOMAIN c |-> F64QueryResult(qs, c[i], ks)[name]])]

\* the summary of summarize_rankings in floats
F64Summary(qs, rs, ks) ==
    LET g == Grouped(rs)
    IN  [key \in {g[i].key : i \in DOMAIN g} |->
            F64GroupSummary(qs, g[CHOOSE i \in DOMAIN g : g[i].key = key].runs, ks)]

-----------------------------------------------------------------------------
(* Idle components: a specification of one component holds the others here *)

FuseIdle ==
    /\ text_results = <<>> /\ vector_results = <<>>
    /\ weight_text = 0 /\ weight_vector = 0 /\ rrf_k = 0 /\ limit = 0
    /\ fused = <<>> /\ fused_results = <<>> /\ fuse_again = <<>>

MetricIdle ==
    /\ results = <<>> /\ relevant = <<>> /\ k = 0
    /\ called = "none" /\ ret = None

SummaryIdle ==
    /\ queries = <<>> /\ rankings = <<>> /\ k_values = <<>>
    /\ grouped = <<>> /\ summary = <<>> /\ per_query = <<>> /\ markdown = <<>>
    /\ summary_f64 = <<>> /\ rankings_reordered = <<>> /\ summary_f64_reordered = <<>>

RunIdle ==
    /\ modes = {} /\ models = <<>> /\ weights = <<>> /\ selected_queries = <<>>
    /\ model_dims = <<>> /\ embedding_cache = <<>> /\ jsonl_records = <<>>
    /\ query_index = 0 /\ model_index = 0
    /\ main_text_results = <<>> /\ main_vector_results = <<>> /\ vector = <<>>
    /\ embed_requests = <<>> /\ text_searches = <<>>

CalcIdle == data_json = <<>> /\ rankings_jsonl = <<>>

MainIdle == RunIdle /\ CalcIdle /\ outdir = <<>> /\ exit_status = <<>>

StoreIdle ==
    /\ documents = {} /\ document_embeddings = {} /\ next_document_id = 0
    /\ runs_started = 0 /\ script_args = <<>> /\ embed_rows = <<>> /\ batch_start = 0
    /\ provider_calls = 0 /\ previous_run = <<>>
    /\ db_at_start = [documents |-> {}, document_embeddings |-> {}]

-----------------------------------------------------------------------------
(* Specification of the rank fusion engine *)

FuseInit ==
    /\ phase = "fuse_input"
    /\ \E t, v \in CandidateLists :
          /\ text_results = SearchRows(t)
          /\ vector_results = SearchRows(v)
    /\ weight_text \in FusionWeights
    /\ weight_vector \in FusionWeights
    /\ rrf_k \in RrfKs
    /\ limit \in Limits
    /\ fused = <<>>
    /\ fused_results = <<>>
    /\ fuse_again = <<>>
    /\ MetricIdle /\ SummaryIdle /\ MainIdle
    /\ StoreIdle

\* one call of fuse_rrf
Fuse ==
    /\ phase = "fuse_input"
    /\ LET out == FuseRrf(text_results, vector_results, weight_text, weight_vector,
                          rrf_k, limit)
       IN  /\ fused' = out.fused
           /\ fused_results' = out.results
    /\ phase' = "fuse_done"
    /\ UNCHANGED <<text_results, vector_results, weight_text, weight_vector, rrf_k, limit,
                   fuse_again>>
    /\ UNCHANGED <<metricVars, summaryVars, mainVars>>
    /\ UNCHANGED storeVars

\* the next iteration of `for weight_text, weight_vector in weights`: fuse_rrf on the same
\* text_results and vector_results, with the weight_text of the next pair (which may be the
\* same as before) and the same weight_vector, rrf_k and limit
FuseAgain ==
    /\ phase = "fuse_done"
    /\ \E next_weight_text \in FusionWeights :
          LET out == FuseRrf(text_results, vector_results, next_weight_text, weight_vector,
                             rrf_k, limit)
          IN  fuse_again' = [weight_text   |-> next_weight_text,
                             fused         |-> out.fused,
                             fused_results |-> out.results]
    /\ phase' = "fuse_again"
    /\ UNCHANGED <<text_results, vector_results, weight_text, weight_vector, rrf_k, limit,
                   fused, fused_results>>
    /\ UNCHANGED <<metricVars, summaryVars, mainVars>>
    /\ UNCHANGED storeVars

FuseNext == Fuse \/ FuseAgain

SpecFuse == FuseInit /\ [][FuseNext]_vars

-----------------------------------------------------------------------------
(* Specification of the metrics engine *)

MetricInit ==
    /\ phase = "metric_input"
    /\ \/ /\ results \in SeqsBetween(MetricDocs, 0, MaxResults)
          /\ relevant \in SeqsBetween(MetricDocs, 0, MaxRelevant)
          /\ k \in 0..MaxK
       \/ /\ results = <<5, 3, 9, 1, 7>>
          /\ relevant = <<1, 3>>
          /\ k = 3
    /\ called = "none"
    /\ ret = None
    /\ FuseIdle /\ SummaryIdle /\ MainIdle
    /\ StoreIdle

CallRecallAtK ==
    /\ phase = "metric_input"
    /\ called' = "recall_at_k"
    /\ ret' = Some(RecallAtK(results, relevant, k))
    /\ phase' = "metric_done"
    /\ UNCHANGED <<results, relevant, k, fuseVars, summaryVars, mainVars>>
    /\ UNCHANGED storeVars

CallMrr ==
    /\ phase = "metric_input"
    /\ called' = "mrr"
    /\ ret' = Some(Mrr(results, relevant))
    /\ phase' = "metric_done"
    /\ UNCHANGED <<results, relevant, k, fuseVars, summaryVars, mainVars>>
    /\ UNCHANGED storeVars

CallNdcgAtK ==
    /\ phase = "metric_input"
    /\ called' = "ndcg_at_k"
    /\ ret' = Some(NdcgAtK(results, relevant, k))
    /\ phase' = "metric_done"
    /\ UNCHANGED <<results, relevant, k, fuseVars, summaryVars, mainVars>>
    /\ UNCHANGED storeVars

MetricNext == CallRecallAtK \/ CallMrr \/ CallNdcgAtK

SpecMetrics == MetricInit /\ [][MetricNext]_vars


-----------------------------------------------------------------------------
(* Specification of the evaluation aggregator *)

\* data.json: three registered queries with their relevant ids per docset
RegisteredQueries ==
    ( "q1" :> [slug |-> "q1", relevant_ids |-> ("s" :> <<1, 3>> @@ "s|text" :> <<1>>)] )
    @@ ( "q2" :> [slug |-> "q2", relevant_ids |-> ("s" :> <<3>>)] )
    @@ ( "q3" :> [slug |-> "q3", relevant_ids |-> ("s" :> <<1>>)] )

\* rankings.jsonl: what a line can hold.  "zz" is a slug data.json does not register.
Conditions ==
    { [docset |-> "s",      mode |-> "text",   model |-> None,         rrf_weights |-> None],
      [docset |-> "s",      mode |-> "text",   model |-> Some("text"), rrf_weights |-> None],
      [docset |-> "s|text", mode |-> "text",   model |-> None,         rrf_weights |-> None],
      [docset |-> "s",      mode |-> "hybrid", model |-> Some("m"),
       rrf_weights |-> Some([text |-> 1, vector |-> 1])] }
Slugs         == {"q1", "q2", "zz"}
LoggedResults == {<<1, 5>>, <<5, 3>>}

RankingRecords ==
    { [slug |-> sl, docset |-> c.docset, mode |-> c.mode, model |-> c.model,
       rrf_weights |-> c.rrf_weights, results |-> res] :
         sl \in Slugs, c \in Conditions, res \in LoggedResults }

SummaryInit ==
    /\ phase = "summary_input"
    /\ queries = RegisteredQueries
    /\ rankings \in SeqsBetween(RankingRecords, 1, MaxRankings)
    /\ k_values = <<1, 2>>
    /\ grouped = <<>>
    /\ summary = EmptyDict
    /\ per_query = EmptyDict
    /\ markdown = <<>>
    /\ summary_f64 = EmptyDict
    /\ rankings_reordered = <<>>
    /\ summary_f64_reordered = EmptyDict
    /\ FuseIdle /\ MetricIdle /\ MainIdle
    /\ StoreIdle

\* summary, per_query = summarize_rankings(queries, rankings, args.k)
Summarize ==
    /\ phase = "summary_input"
    /\ grouped' = Grouped(rankings)
    /\ LET out == SummarizeRankings(queries, rankings, k_values)
       IN  /\ summary' = out.summary
           /\ per_query' = out.per_query
    /\ summary_f64' = F64Summary(queries, rankings, k_values)
    /\ phase' = "summarized"
    /\ UNCHANGED <<queries, rankings, k_values, markdown, rankings_reordered,
                   summary_f64_reordered, fuseVars, metricVars, mainVars>>
    /\ UNCHANGED storeVars

\* format_markdown(summary, args.k)
RenderMarkdown ==
    /\ phase = "summarized"
    /\ markdown' = FormatMarkdown(summary, k_values)
    /\ phase' = "formatted"
    /\ UNCHANGED <<queries, rankings, k_values, grouped, summary, per_query,
                   summary_f64, rankings_reordered, summary_f64_reordered,
                   fuseVars, metricVars, mainVars>>
    /\ UNCHANGED storeVars

SummaryNext == Summarize \/ RenderMarkdown

SpecSummary == SummaryInit /\ [][SummaryNext]_vars

-----------------------------------------------------------------------------
(* Two runs of calc_metrics on the same ranking records in two line orders *)

\* the result lists logged for the three registered queries under one Condition
ReorderResults == {<<3, 1>>, <<5, 7, 3>>, <<1, 5>>}

\* rankings.jsonl with one text record of docset "s" per registered query
ReorderInit ==
    /\ phase = "summary_input"
    /\ queries = RegisteredQueries
    /\ \E res \in [1..3 -> ReorderResults] :
          rankings = [i \in 1..3 |->
                        [slug |-> <<"q1", "q2", "q3">>[i], docset |-> "s", mode |-> "text",
                         model |-> None, rrf_weights |-> None, results |-> res[i]]]
    /\ k_values = <<1, 2>>
    /\ grouped = <<>>
    /\ summary = EmptyDict
    /\ per_query = EmptyDict
    /\ markdown = <<>>
    /\ summary_f64 = EmptyDict
    /\ rankings_reordered = <<>>
    /\ summary_f64_reordered = EmptyDict
    /\ FuseIdle /\ MetricIdle /\ MainIdle
    /\ StoreIdle

\* summarize_rankings(queries, rankings, args.k) of a run whose rankings file holds the
\* same lines in another order
SummarizeReordered ==
    /\ phase = "summarized"
    /\ \E other \in Orderings(rankings) :
          /\ rankings_reordered' = other
          /\ summary_f64_reordered' = F64Summary(queries, other, k_values)
    /\ phase' = "resummarized"
    /\ UNCHANGED <<queries, rankings, k_values, grouped, summary, per_query, markdown,
                   summary_f64, fuseVars, metricVars, mainVars>>
    /\ UNCHANGED storeVars

ReorderNext == Summarize \/ SummarizeReordered

SpecReorder == ReorderInit /\ [][ReorderNext]_vars

-----------------------------------------------------------------------------
(* run_eval.py main: one evaluation run.  The database and the embedding provider are    *)
(* outside the program: what they answer is chosen freely among the outcomes listed here. *)

\* data.json: q1 and q3 ask the same query text
DataQueries ==
    << [slug |-> "q1", query |-> "alpha"],
       [slug |-> "q2", query |-> "beta"],
       [slug |-> "q3", query |-> "alpha"] >>

\* what select_queries can return for --only: queries of data.json in file order
SelectedQueryLists ==
    { <<DataQueries[1]>>, <<DataQueries[1], DataQueries[2]>>, <<DataQueries[1], DataQueries[3]>> }

ModeSets == (SUBSET {"text", "vector", "hybrid"}) \ {{}}       \* ensure_modes
ModelLists == { <<"m1">>, <<"m1", "m2">>, <<"m1", "m1">> }     \* parse_models keeps repeats
WeightLists == { << <<1, 1>> >>, << <<1, 1>>, <<2, 1>> >> }    \* parse_rrf_weights: 1:1 and 1:1,2:1

\* the rows of embedding_models (name -> dims) the database can hold
ModelRegistries == { ("m1" :> 2) @@ ("m2" :> 3), ("m1" :> 2) }

ArgsDocset == "s"        \* --docset
ArgsLimit  == 2          \* --limit
ArgsRrfK   == 60         \* --rrf-k

\* answers of the database to one search: the document ids of the rows, or an error
TextHits   == {<<>>, <<1, 3>>}
VectorHits == {<<>>, <<3, 5>>}
SearchOutcomes(hits) ==
    {[status |-> "ok", ids |-> h] : h \in hits} \cup {[status |-> "error", ids |-> <<>>]}

\* answers of the embedding provider to one POST /api/embed: an error status (or no answer),
\* or payload["embeddings"][0] with two or with three numbers
EmbedResponses ==
    { [status |-> "error", embedding |-> <<>>],
      [status |-> "ok", embedding |-> <<7, 7>>],
      [status |-> "ok", embedding |-> <<7, 7, 7>>] }

\* embed_query without the cache lookup at its start
EmbedQueryMutNoLookup(model, text, dims, cache, response) ==
    LET key == <<model, text>>
    IN  IF response.status = "error"
           THEN [vector |-> None, cache |-> cache, requested |-> TRUE,
                 raised |-> Some("HTTPError")]
        ELSE IF Len(response.embedding) # dims
           THEN [vector |-> None, cache |-> cache, requested |-> TRUE,
                 raised |-> Some("SystemExit: expected dims")]
        ELSE [vector |-> Some(response.embedding),
              cache |-> (key :> response.embedding) @@ cache,
              requested |-> TRUE, raised |-> None]

\* embed_query(ollama_url, model, text, dims, cache); `response` is what the provider answers
\* if it is asked.  Returns the vector, the cache afterwards, whether a request was made and
\* what was raised.
EmbedQuery(model, text, dims, cache, response) ==
    LET key == <<model, text>>
    IN  IF key \in DOMAIN cache
           THEN [vector |-> Some(cache[key]), cache |-> cache, requested |-> FALSE,
                 raised |-> None]
        ELSE IF response.status = "error"
           THEN [vector |-> None, cache |-> cache, requested |-> TRUE,
                 raised |-> Some("HTTPError")]
        ELSE IF Len(response.embedding) # dims
           THEN [vector |-> None, cache |-> cache, requested |-> TRUE,
                 raised |-> Some("SystemExit: expected dims")]
        ELSE [vector |-> Some(response.embedding),
              cache |-> (key :> response.embedding) @@ cache,
              requested |-> TRUE, raised |-> None]

\* the dicts appended to jsonl_records (timestamp, query, params and text_query left out)
TextRecord(slug, rows) ==
    [query_slug |-> slug, docset |-> ArgsDocset, mode |-> "text", model |-> None,
     rrf |-> None, results |-> Prefix(rows, ArgsLimit)]

VectorRecord(slug, model, rows) ==
    [query_slug |-> slug, docset |-> ArgsDocset, mode |-> "vector", model |-> Some(model),
     rrf |-> None, results |-> Prefix(rows, ArgsLimit)]

HybridRecord(slug, model, weight_pair, rows) ==
    [query_slug |-> slug, docset |-> ArgsDocset, mode |-> "hybrid", model |-> Some(model),
     rrf |-> Some([k |-> ArgsRrfK,
                   weights |-> [text |-> weight_pair[1], vector |-> weight_pair[2]]]),
     results |-> rows]

\* the loop over the weight pairs left after its first iteration
HybridRecordsMutFirstPairOnly(slug, model, text_rows, vector_rows, weight_pairs) ==
    << HybridRecord(slug, model, weight_pairs[1],
                    FuseRrf(text_rows, vector_rows, weight_pairs[1][1], weight_pairs[1][2],
                            ArgsRrfK, ArgsLimit).results) >>

\* `for weight_text, weight_vector in weights`: one fused record per pair, in list order
HybridRecords(slug, model, text_rows, vector_rows, weight_pairs) ==
    [i \in DOMAIN weight_pairs |->
        HybridRecord(slug, model, weight_pairs[i],
                     FuseRrf(text_rows, vector_rows, weight_pairs[i][1], weight_pairs[i][2],
                             ArgsRrfK, ArgsLimit).results)]

\* the loop over the queries left after its first iteration
AfterQueryMutStopEarly(qi) ==
    [phase |-> "run_write", query_index |-> qi, model_index |-> 0]

\* where main continues after the body of `for query_payload in selected_queries`
AfterQuery(qi) ==
    IF qi < Len(selected_queries)
       THEN [phase |-> "run_text", query_index |-> qi + 1, model_index |-> 0]
       ELSE [phase |-> "run_write", query_index |-> qi, model_index |-> 0]

\* where main continues after the body of `for model in models`
AfterModel(qi, mi) ==
    IF mi < Len(models)
       THEN [phase |-> "run_embed", query_index |-> qi, model_index |-> mi + 1]
       ELSE AfterQuery(qi)

GoTo(position) ==
    /\ phase' = position.phase
    /\ query_index' = position.query_index
    /\ model_index' = position.model_index

\* an exception or SystemExit leaves main: nothing after it runs
Fail(message) ==
    /\ exit_status' = Some(message)
    /\ phase' = "run_failed"

RunInit ==
    /\ phase = "run_start"
    /\ modes \in ModeSets
    /\ models \in ModelLists
    /\ weights \in WeightLists
    /\ selected_queries \in SelectedQueryLists
    /\ model_dims = EmptyDict
    /\ embedding_cache = EmptyDict
    /\ jsonl_records = <<>>
    /\ query_index = 0 /\ model_index = 0
    /\ main_text_results = <<>> /\ main_vector_results = <<>> /\ vector = None
    /\ embed_requests = <<>> /\ text_searches = <<>>
    /\ outdir = EmptyDict
    /\ exit_status = None
    /\ CalcIdle /\ FuseIdle /\ MetricIdle /\ SummaryIdle
    /\ StoreIdle

\* psycopg.connect, fetch_available_models and the check of the requested models
Connect ==
    /\ phase = "run_start"
    /\ \/ /\ Fail("OperationalError")
          /\ UNCHANGED <<model_dims, query_index, model_index>>
       \/ \E registry \in ModelRegistries :
             /\ model_dims' = registry
             /\ IF \E i \in DOMAIN models : models[i] \notin DOMAIN registry
                   THEN /\ Fail("SystemExit: Missing dims for models")
                        /\ UNCHANGED <<query_index, model_index>>
                   ELSE /\ GoTo([phase |-> "run_text", query_index |-> 1, model_index |-> 0])
                        /\ UNCHANGED exit_status
    /\ UNCHANGED <<modes, models, weights, selected_queries, embedding_cache, jsonl_records,
                   main_text_results, main_vector_results, vector, embed_requests,
                   text_searches, outdir, calcVars, fuseVars, metricVars, summaryVars>>
    /\ UNCHANGED storeVars

\* the start of the loop body for one query: the text search and the text record
TextSearch ==
    /\ phase = "run_text"
    /\ LET slug == selected_queries[query_index].slug
           next == IF "vector" \in modes \/ "hybrid" \in modes
                      THEN [phase |-> "run_embed", query_index |-> query_index,
                            model_index |-> 1]
                      ELSE AfterQuery(query_index)
       IN  IF "text" \in modes \/ "hybrid" \in modes
              THEN \E answer \in SearchOutcomes(TextHits) :
                      /\ text_searches' = Append(text_searches,
                                                 [slug |-> slug, answer |-> answer])
                      /\ IF answer.status = "error"
                            THEN /\ Fail("DatabaseError")
                                 /\ UNCHANGED <<main_text_results, jsonl_records,
                                                query_index, model_index>>
                            ELSE /\ main_text_results' = SearchRows(answer.ids)
                                 /\ jsonl_records' =
                                       IF "text" \in modes
                                          THEN Append(jsonl_records,
                                                      TextRecord(slug, SearchRows(answer.ids)))
                                          ELSE jsonl_records
                                 /\ GoTo(next)
                                 /\ UNCHANGED exit_status
              ELSE /\ main_text_results' = <<>>
                   /\ GoTo(next)
                   /\ UNCHANGED <<text_searches, jsonl_records, exit_status>>
    /\ UNCHANGED <<modes, models, weights, selected_queries, model_dims, embedding_cache,
                   main_vector_results, vector, embed_requests, outdir,
                   calcVars, fuseVars, metricVars, summaryVars>>
    /\ UNCHANGED storeVars

\* get_model_dims and embed_query for one model
Embed ==
    /\ phase = "run_embed"
    /\ LET model == models[model_index]
           text  == selected_queries[query_index].query
       IN  \E response \in EmbedResponses :
              LET out == EmbedQuery(model, text, model_dims[model], embedding_cache, response)
              IN  /\ embedding_cache' = out.cache
                  /\ embed_requests' = IF out.requested
                                          THEN Append(embed_requests, <<model, text>>)
                                          ELSE embed_requests
                  /\ IF out.raised # None
                        THEN /\ Fail(out.raised[1])
                             /\ UNCHANGED vector
                        ELSE /\ vector' = out.vector
                             /\ phase' = "run_vector"
                             /\ UNCHANGED exit_status
    /\ UNCHANGED <<modes, models, weights, selected_queries, model_dims, jsonl_records,
                   query_index, model_index, main_text_results, main_vector_results,
                   text_searches, outdir, calcVars, fuseVars, metricVars, summaryVars>>
    /\ UNCHANGED storeVars

\* run_vector_search for one model and the vector record
VectorSearch ==
    /\ phase = "run_vector"
    /\ LET slug  == selected_queries[query_index].slug
           model == models[model_index]
       IN  \E answer \in SearchOutcomes(VectorHits) :
              IF answer.status = "error"
                 THEN /\ Fail("DatabaseError")
                      /\ UNCHANGED <<main_vector_results, jsonl_records, query_index,
                                     model_index>>
                 ELSE /\ main_vector_results' = SearchRows(answer.ids)
                      /\ jsonl_records' =
                            IF "vector" \in modes
                               THEN Append(jsonl_records,
                                           VectorRecord(slug, model, SearchRows(answer.ids)))
                               ELSE jsonl_records
                      /\ IF "hybrid" \in modes
                            THEN /\ phase' = "run_hybrid"
                                 /\ UNCHANGED <<query_index, model_index>>
                            ELSE GoTo(AfterModel(query_index, model_index))
                      /\ UNCHANGED exit_status
    /\ UNCHANGED <<modes, models, weights, selected_queries, model_dims, embedding_cache,
                   main_text_results, vector, embed_requests, text_searches, outdir,
                   calcVars, fuseVars, metricVars, summaryVars>>
    /\ UNCHANGED storeVars

\* the hybrid branch for one model: the text search again if text_results is empty, then one
\* fused record per weight pair
Hybrid ==
    /\ phase = "run_hybrid"
    /\ LET slug  == selected_queries[query_index].slug
           model == models[model_index]
           fuse(text_rows) ==
               /\ jsonl_records' = jsonl_records
                                   \o HybridRecords(slug, model, text_rows,
                                                    main_vector_results, weights)
               /\ GoTo(AfterModel(query_index, model_index))
               /\ UNCHANGED exit_status
       IN  IF main_text_results = <<>>
              THEN \E answer \in SearchOutcomes(TextHits) :
                      /\ text_searches' = Append(text_searches,
                                                 [slug |-> slug, answer |-> answer])
                      /\ IF answer.status = "error"
                            THEN /\ Fail("DatabaseError")
                                 /\ UNCHANGED <<main_text_results, jsonl_records,
                                                query_index, model_index>>
                            ELSE /\ main_text_results' = SearchRows(answer.ids)
                                 /\ fuse(SearchRows(answer.ids))
              ELSE /\ fuse(main_text_results)
                   /\ UNCHANGED <<main_text_results, text_searches>>
    /\ UNCHANGED <<modes, models, weights, selected_queries, model_dims, embedding_cache,
                   main_vector_results, vector, embed_requests, outdir,
                   calcVars, fuseVars, metricVars, summaryVars>>
    /\ UNCHANGED storeVars

\* write_jsonl(rankings_path, jsonl_records)
WriteJsonl ==
    /\ phase = "run_write"
    /\ outdir' = ("rankings.jsonl" :> jsonl_records) @@ outdir
    /\ phase' = "run_config"
    /\ UNCHANGED <<runVars, calcVars, exit_status, fuseVars, metricVars, summaryVars>>
    /\ UNCHANGED storeVars

\* write_run_config(config_path, run_config)
WriteRunConfig ==
    /\ phase = "run_config"
    /\ outdir' = ("run_config.json" :>
                     [modes |-> modes, models |-> models, rrf_weights |-> weights,
                      queries |-> [i \in DOMAIN selected_queries |-> selected_queries[i].slug]])
                 @@ outdir
    /\ phase' = "run_done"
    /\ UNCHANGED <<runVars, calcVars, exit_status, fuseVars, metricVars, summaryVars>>
    /\ UNCHANGED storeVars

RunNext == Connect \/ TextSearch \/ Embed \/ VectorSearch \/ Hybrid \/ WriteJsonl
           \/ WriteRunConfig

SpecRunEval == RunInit /\ [][RunNext]_vars

-----------------------------------------------------------------------------
(* calc_metrics.py main: one metrics run over a data file and a rankings file *)

MaxLines == 3       \* most lines in the rankings file

\* the entries of "queries" in the data file; is_dict tells whether relevant_doc_ids is a
\* JSON object
DataEntry(slug) ==
    [slug |-> slug, is_dict |-> TRUE, relevant_doc_ids |-> RegisteredQueries[slug].relevant_ids]

DataFiles ==
    { <<>>,
      <<DataEntry("q1"), DataEntry("q2"), DataEntry("q3")>>,
      <<DataEntry("q1"), [slug |-> "q2", is_dict |-> FALSE, relevant_doc_ids |-> <<3>>]>> }

\* the lines of the rankings file: whitespace only, not JSON, or a record as run_eval wrote it
RankingLines ==
    { [kind |-> "blank",     payload |-> <<>>],
      [kind |-> "malformed", payload |-> <<>>],
      [kind |-> "record",    payload |-> TextRecord("q1", SearchRows(<<1, 5>>))],
      [kind |-> "record",
       payload |-> HybridRecord("q2", "m1", <<1, 1>>,
                                FuseRrf(SearchRows(<<1, 3>>), SearchRows(<<3, 5>>), 1, 1,
                                        ArgsRrfK, ArgsLimit).results)] }

\* load_queries of calc_metrics: the dict slug -> QueryInfo, or what was raised
RECURSIVE LoadQueriesLoop(_, _)
LoadQueriesLoop(loaded, entries) ==
    IF entries = <<>>
       THEN IF DOMAIN loaded = {}
               THEN [raised |-> Some("SystemExit: queries list is empty in data.json"),
                     queries |-> EmptyDict]
               ELSE [raised |-> None, queries |-> loaded]
    ELSE IF ~ Head(entries).is_dict
       THEN [raised |-> Some("SystemExit: relevant_doc_ids must be an object keyed by docset"),
             queries |-> EmptyDict]
    ELSE LoadQueriesLoop(
             (Head(entries).slug :> [slug |-> Head(entries).slug,
                                     relevant_ids |-> Head(entries).relevant_doc_ids])
             @@ [s \in DOMAIN loaded \ {Head(entries).slug} |-> loaded[s]],
             Tail(entries))

LoadQueries(data) == LoadQueriesLoop(EmptyDict, data)

\* the Ranking built from the payload of one line
ToRanking(payload) ==
    [slug        |-> payload.query_slug,
     docset      |-> payload.docset,
     mode        |-> payload.mode,
     model       |-> payload.model,
     rrf_weights |-> IF payload.rrf = None THEN None
                     ELSE Some([text   |-> payload.rrf[1].weights.text,
                                vector |-> payload.rrf[1].weights.vector]),
     results     |-> [i \in DOMAIN payload.results |-> payload.results[i].document_id]]

\* load_rankings where a line that is not JSON is passed over like a blank one
RECURSIVE LoadRankingsLoopMutSkipMalformed(_, _)
LoadRankingsLoopMutSkipMalformed(loaded, lines) ==
    IF lines = <<>>
       THEN IF loaded = <<>>
               THEN [raised |-> Some("SystemExit: rankings JSONL is empty"), rankings |-> <<>>]
               ELSE [raised |-> None, rankings |-> loaded]
    ELSE IF Head(lines).kind \in {"blank", "malformed"}
       THEN LoadRankingsLoopMutSkipMalformed(loaded, Tail(lines))
    ELSE LoadRankingsLoopMutSkipMalformed(Append(loaded, ToRanking(Head(lines).payload)),
                                          Tail(lines))

\* load_rankings: the list of Ranking in line order, or what was raised
RECURSIVE LoadRankingsLoop(_, _)
LoadRankingsLoop(loaded, lines) ==
    IF lines = <<>>
       THEN IF loaded = <<>>
               THEN [raised |-> Some("SystemExit: rankings JSONL is empty"), rankings |-> <<>>]
               ELSE [raised |-> None, rankings |-> loaded]
    ELSE IF Head(lines).kind = "blank"
       THEN LoadRankingsLoop(loaded, Tail(lines))
    ELSE IF Head(lines).kind = "malformed"
       THEN [raised |-> Some("JSONDecodeError"), rankings |-> <<>>]
    ELSE LoadRankingsLoop(Append(loaded, ToRanking(Head(lines).payload)), Tail(lines))

LoadRankings(lines) == LoadRankingsLoop(<<>>, lines)

\* after parse_args and outdir.mkdir: nothing read, nothing written
CalcInit ==
    /\ phase = "calc_start"
    /\ data_json \in DataFiles
    /\ rankings_jsonl \in SeqsBetween(RankingLines, 0, MaxLines)
    /\ queries = EmptyDict
    /\ rankings = <<>>
    /\ k_values = <<1, 2>>
    /\ grouped = <<>>
    /\ summary = EmptyDict
    /\ per_query = EmptyDict
    /\ markdown = <<>>
    /\ summary_f64 = EmptyDict
    /\ rankings_reordered = <<>>
    /\ summary_f64_reordered = EmptyDict
    /\ outdir = EmptyDict
    /\ exit_status = None
    /\ RunIdle /\ FuseIdle /\ MetricIdle
    /\ StoreIdle

\* queries = load_queries(Path(args.data))
CalcLoadQueries ==
    /\ phase = "calc_start"
    /\ LET out == LoadQueries(data_json)
       IN  IF out.raised # None
              THEN /\ exit_status' = out.raised
                   /\ phase' = "calc_failed"
                   /\ UNCHANGED queries
              ELSE /\ queries' = out.queries
                   /\ phase' = "calc_queries"
                   /\ UNCHANGED exit_status
    /\ UNCHANGED <<rankings, k_values, grouped, summary, per_query, markdown, summary_f64,
                   rankings_reordered, summary_f64_reordered, outdir, runVars, calcVars,
                   fuseVars, metricVars>>
    /\ UNCHANGED storeVars

\* rankings = load_rankings(rankings_path); summarize_rankings is next
CalcLoadRankings ==
    /\ phase = "calc_queries"
    /\ LET out == LoadRankings(rankings_jsonl)
       IN  IF out.raised # None
              THEN /\ exit_status' = out.raised
                   /\ phase' = "calc_failed"
                   /\ UNCHANGED rankings
              ELSE /\ rankings' = out.rankings
                   /\ phase' = "summary_input"
                   /\ UNCHANGED exit_status
    /\ UNCHANGED <<queries, k_values, grouped, summary, per_query, markdown, summary_f64,
                   rankings_reordered, summary_f64_reordered, outdir, runVars, calcVars,
                   fuseVars, metricVars>>
    /\ UNCHANGED storeVars

\* json.dump({"summary": summary, "per_query": per_query if args.per_query else {}}, f):
\* the floats go to the file as the interpreter holds them
WriteMetricsJson ==
    /\ phase = "summarized"
    /\ \E args_per_query \in BOOLEAN :
          outdir' = ("metrics.json" :>
                        [summary   |-> summary_f64,
                         per_query |-> IF args_per_query THEN per_query ELSE EmptyDict])
                    @@ outdir
    /\ phase' = "calc_json"
    /\ UNCHANGED <<summaryVars, runVars, calcVars, exit_status, fuseVars, metricVars>>
    /\ UNCHANGED storeVars

\* metrics_md_path.write_text(format_markdown(summary, args.k))
WriteMetricsMd ==
    /\ phase = "calc_json"
    /\ markdown' = FormatMarkdown(summary, k_values)
    /\ outdir' = ("metrics.md" :> FormatMarkdown(summary, k_values)) @@ outdir
    /\ phase' = "calc_done"
    /\ UNCHANGED <<queries, rankings, k_values, grouped, summary, per_query, summary_f64,
                   rankings_reordered, summary_f64_reordered, runVars, calcVars, exit_status,
                   fuseVars, metricVars>>
    /\ UNCHANGED storeVars

CalcNext == CalcLoadQueries \/ CalcLoadRankings \/ Summarize \/ WriteMetricsJson
            \/ WriteMetricsMd

SpecCalc == CalcInit /\ [][CalcNext]_vars

-----------------------------------------------------------------------------
(* The document store: scripts/add_document.py and scripts/embed_documents.py run one    *)
(* after the other on one database.  A run works in a transaction: what it wrote since   *)
(* its last commit is rolled back when an exception leaves the connection block.         *)

MaxRuns      == 2       \* most runs of the two scripts in a row
MaxDocuments == 3       \* largest documents.id given out

\* the table embedding_models: name -> dims ("m3" is a model nobody registered)
EmbeddingModels == ("m1" :> 2) @@ ("m2" :> 3)
ScriptModels    == {"m1", "m2", "m3"}       \* --model

BatchSizes == {-1, 0, 1, 2}                 \* --batch-size (type=int)
RowLimits  == {0, 1}                        \* --limit, 0 = no limit

\* f"{x:.8f}" of a float with an integer value
Format8f(x) == ToString(x) \o ".00000000"

\* to_pgvector_literal: one formatted number per component
ToPgvectorLiteral(vec) == [i \in DOMAIN vec |-> Format8f(vec[i])]

\* the row both scripts hand to the upsert statement
EmbeddingRow(doc_id, model, dims, emb, now) ==
    [document_id |-> doc_id, model |-> model, dims |-> dims,
     embedding |-> ToPgvectorLiteral(emb), created_at |-> now]

\* the statement as a plain INSERT with no conflict target
UpsertMutInsert(rows, row) == rows \cup {row}

\* INSERT ... ON CONFLICT (document_id, model) DO UPDATE SET embedding, dims, created_at
Upsert(rows, row) ==
    {r \in rows : ~ (r.document_id = row.document_id /\ r.model = row.model)} \cup {row}

\* the loop `for doc_id, emb in zip(ids, embs)` of one batch
RECURSIVE UpsertAll(_, _, _, _, _, _)
UpsertAll(rows, ids, embs, model, dims, now) ==
    IF ids = <<>> \/ embs = <<>> THEN rows
    ELSE UpsertAll(Upsert(rows, EmbeddingRow(Head(ids), model, dims, Head(embs), now)),
                   Tail(ids), Tail(embs), model, dims, now)

\* ids in ascending order (ORDER BY d.id)
RECURSIVE SortedIds(_)
SortedIds(ids) ==
    IF ids = {} THEN <<>>
    ELSE LET least == CHOOSE d \in ids : \A e \in ids : d <= e
         IN  <<least>> \o SortedIds(ids \ {least})

\* the select of embed_documents that leaves out the test of the stored dims
SelectRowsMutNoDimsTest(docs, rows, model, dims, force, row_limit) ==
    LET hit == {d \in docs :
                   \/ force
                   \/ ~ \E r \in rows : r.document_id = d /\ r.model = model}
    IN  IF row_limit <= 0 THEN SortedIds(hit) ELSE Prefix(SortedIds(hit), row_limit)

\* select_sql: the ids of the documents to embed (content is carried along unread)
SelectRows(docs, rows, model, dims, force, row_limit) ==
    LET hit == {d \in docs :
                   \/ force
                   \/ ~ \E r \in rows : r.document_id = d /\ r.model = model
                   \/ \E r \in rows : r.document_id = d /\ r.model = model /\ r.dims # dims}
    IN  IF row_limit <= 0 THEN SortedIds(hit) ELSE Prefix(SortedIds(hit), row_limit)

\* rows[i : i + batch_size], i counted from 0
Chunk(rows, i, batch_size) ==
    SubSeq(rows, i + 1, IF i + batch_size < Len(rows) THEN i + batch_size ELSE Len(rows))

\* one embedding of the provider with `len` components
ProviderVector(len) == [i \in 1..len |-> 7]

\* answers of the provider to one batch of n texts: an error, n embeddings of one length,
\* n embeddings of which the first or the later ones have another length, or one too few
BatchResponses(n) ==
    { [status |-> "error", embeddings |-> <<>>] }
    \cup { [status |-> "ok", embeddings |-> [i \in 1..n |-> ProviderVector(len)]] :
              len \in {2, 3} }
    \cup { [status |-> "ok",
            embeddings |-> [i \in 1..n |-> ProviderVector(IF i = 1 THEN first ELSE 5 - first)]] :
              first \in {2, 3} }
    \cup { [status |-> "ok", embeddings |-> [i \in 1..(n - 1) |-> ProviderVector(2)]] }

\* the checks of one batch that leave out the comparison with the registered dims
CheckBatchMutNoDimsCheck(response, n, dims) ==
    IF response.status = "error" THEN Some("HTTPError")
    ELSE IF Len(response.embeddings) # n THEN Some("RuntimeError: embeddings for inputs")
    ELSE IF \E i \in DOMAIN response.embeddings :
               Len(response.embeddings[i]) # Len(response.embeddings[1])
       THEN Some("RuntimeError: dimensions are not consistent")
    ELSE None

\* ollama_embed_batch and the checks of one batch: what is raised, None if nothing
CheckBatch(response, n, dims) ==
    IF response.status = "error" THEN Some("HTTPError")
    ELSE IF Len(response.embeddings) # n THEN Some("RuntimeError: embeddings for inputs")
    ELSE IF Len(response.embeddings[1]) # dims THEN Some("RuntimeError: expected dims")
    ELSE IF \E i \in DOMAIN response.embeddings :
               Len(response.embeddings[i]) # Len(response.embeddings[1])
       THEN Some("RuntimeError: dimensions are not consistent")
    ELSE None

\* a run starts: the log keeps how the run before it ended
StartRun(args) ==
    /\ runs_started' = runs_started + 1
    /\ previous_run' = IF runs_started = 0 THEN None
                       ELSE Some([args |-> script_args, exit_status |-> exit_status,
                                  provider_calls |-> provider_calls])
    /\ script_args' = args
    /\ db_at_start' = [documents |-> documents, document_embeddings |-> document_embeddings]

\* the database before any run: no documents or two seeded ones, no embeddings
StoreInit ==
    /\ phase = "store_idle"
    /\ \/ documents = {} /\ next_document_id = 0
       \/ documents = {1, 2} /\ next_document_id = 2
    /\ document_embeddings = {}
    /\ runs_started = 0
    /\ script_args = None
    /\ embed_rows = <<>>
    /\ batch_start = 0
    /\ provider_calls = 0
    /\ db_at_start = [documents |-> documents, document_embeddings |-> document_embeddings]
    /\ previous_run = None
    /\ exit_status = None
    /\ outdir = <<>>
    /\ RunIdle /\ CalcIdle /\ FuseIdle /\ MetricIdle /\ SummaryIdle

\* one run of add_document.py: fetch_model_dims, ollama_embed_one, the length check, then
\* the two statements in one transaction; db_ok tells whether the upsert statement succeeds
AddDocument ==
    /\ phase = "store_idle"
    /\ runs_started < MaxRuns
    /\ next_document_id < MaxDocuments
    /\ \E model \in ScriptModels, response \in EmbedResponses, db_ok \in BOOLEAN :
          /\ StartRun([script |-> "add_document", model |-> model, batch_size |-> 0,
                       force |-> FALSE, limit |-> 0])
          /\ IF model \notin DOMAIN EmbeddingModels
                THEN /\ exit_status' = Some("SystemExit: model is not registered")
                     /\ provider_calls' = 0
                     /\ UNCHANGED <<documents, document_embeddings, next_document_id>>
             ELSE IF response.status = "error"
                THEN /\ exit_status' = Some("HTTPError")
                     /\ provider_calls' = 1
                     /\ UNCHANGED <<documents, document_embeddings, next_document_id>>
             ELSE IF Len(response.embedding) # EmbeddingModels[model]
                THEN /\ exit_status' = Some("SystemExit: expected dims")
                     /\ provider_calls' = 1
                     /\ UNCHANGED <<documents, document_embeddings, next_document_id>>
             ELSE IF ~ db_ok
                THEN /\ exit_status' = Some("DatabaseError")
                     /\ provider_calls' = 1
                     /\ next_document_id' = next_document_id + 1
                     /\ UNCHANGED <<documents, document_embeddings>>
             ELSE /\ exit_status' = None
                  /\ provider_calls' = 1
                  /\ next_document_id' = next_document_id + 1
                  /\ documents' = documents \cup {next_document_id + 1}
                  /\ document_embeddings' =
                        Upsert(document_embeddings,
                               EmbeddingRow(next_document_id + 1, model, EmbeddingModels[model],
                                            response.embedding, runs_started + 1))
    /\ phase' = "store_idle"
    /\ UNCHANGED <<embed_rows, batch_start>>
    /\ UNCHANGED <<outdir, runVars, calcVars, fuseVars, metricVars, summaryVars>>

\* embed_documents.py up to its loop: fetch_model_dims, the select, the return when there is
\* nothing to embed, and range(0, len(rows), args.batch_size)
EmbedDocumentsStart ==
    /\ phase = "store_idle"
    /\ runs_started < MaxRuns
    /\ \E model \in ScriptModels, batch_size \in BatchSizes, force \in BOOLEAN,
          row_limit \in RowLimits :
          /\ StartRun([script |-> "embed_documents", model |-> model,
                       batch_size |-> batch_size, force |-> force, limit |-> row_limit])
          /\ IF model \notin DOMAIN EmbeddingModels
                THEN /\ exit_status' = Some("SystemExit: model is not registered")
                     /\ embed_rows' = <<>>
                     /\ phase' = "store_idle"
                ELSE LET rows == SelectRows(documents, document_embeddings, model,
                                            EmbeddingModels[model], force, row_limit)
                     IN  /\ embed_rows' = rows
                         /\ IF rows = <<>>
                               THEN exit_status' = None /\ phase' = "store_idle"
                            ELSE IF batch_size = 0
                               THEN /\ exit_status' = Some("ValueError: range() arg 3")
                                    /\ phase' = "store_idle"
                            ELSE IF batch_size < 0
                               THEN exit_status' = None /\ phase' = "store_idle"
                            ELSE exit_status' = None /\ phase' = "embed_batches"
    /\ provider_calls' = 0
    /\ batch_start' = 0
    /\ UNCHANGED <<documents, document_embeddings, next_document_id>>
    /\ UNCHANGED <<outdir, runVars, calcVars, fuseVars, metricVars, summaryVars>>

\* one iteration of the loop of embed_documents.py: the request for the chunk, the checks,
\* the upserts and conn.commit(); db_ok tells whether the upsert statements succeed
EmbedDocumentsBatch ==
    /\ phase = "embed_batches"
    /\ LET model == script_args.model
           dims  == EmbeddingModels[model]
           chunk == Chunk(embed_rows, batch_start, script_args.batch_size)
       IN  \E response \in BatchResponses(Len(chunk)), db_ok \in BOOLEAN :
              LET raised == CheckBatch(response, Len(chunk), dims)
              IN  IF raised # None
                     THEN /\ exit_status' = raised
                          /\ phase' = "store_idle"
                          /\ UNCHANGED <<document_embeddings, batch_start>>
                  ELSE IF ~ db_ok
                     THEN /\ exit_status' = Some("DatabaseError")
                          /\ phase' = "store_idle"
                          /\ UNCHANGED <<document_embeddings, batch_start>>
                  ELSE /\ document_embeddings' =
                             UpsertAll(document_embeddings, chunk, response.embeddings,
                                       model, dims, runs_started)
                       /\ batch_start' = batch_start + script_args.batch_size
                       /\ phase' = IF batch_start + script_args.batch_size < Len(embed_rows)
                                      THEN "embed_batches" ELSE "store_idle"
                       /\ UNCHANGED exit_status
    /\ provider_calls' = provider_calls + 1
    /\ UNCHANGED <<documents, next_document_id, runs_started, script_args, embed_rows,
                   db_at_start, previous_run>>
    /\ UNCHANGED <<outdir, runVars, calcVars, fuseVars, metricVars, summaryVars>>

StoreNext == AddDocument \/ EmbedDocumentsStart \/ EmbedDocumentsBatch

SpecStore == StoreInit /\ [][StoreNext]_vars

\* the database after the dims of m1 were registered anew: document 1 still has a row
\* embedded with the old dims (3), document 2 has none
StoreStaleInit ==
    /\ phase = "store_idle"
    /\ documents = {1, 2} /\ next_document_id = 2
    /\ document_embeddings = {EmbeddingRow(1, "m1", 3, ProviderVector(3), 0)}
    /\ runs_started = 0
    /\ script_args = None
    /\ embed_rows = <<>>
    /\ batch_start = 0
    /\ provider_calls = 0
    /\ db_at_start = [documents |-> documents, document_embeddings |-> document_embeddings]
    /\ previous_run = None
    /\ exit_status = None
    /\ outdir = <<>>
    /\ RunIdle /\ CalcIdle /\ FuseIdle /\ MetricIdle /\ SummaryIdle

SpecStoreResume == (StoreInit \/ StoreStaleInit) /\ [][StoreNext]_vars

-----------------------------------------------------------------------------
(* The metrics engine called directly and through the aggregator *)

MetricsAndSummaryInit == MetricInit \/ SummaryInit
MetricsAndSummaryNext == MetricNext \/ SummaryNext
SpecMetricsAndSummary == MetricsAndSummaryInit /\ [][MetricsAndSummaryNext]_vars

(* All components *)

Init == FuseInit \/ MetricInit \/ SummaryInit \/ ReorderInit \/ RunInit \/ CalcInit
        \/ StoreInit \/ StoreStaleInit
Next == FuseNext \/ MetricNext \/ SummaryNext \/ SummarizeReordered \/ RunNext \/ CalcNext
        \/ StoreNext
Spec == Init /\ [][Next]_vars

-----------------------------------------------------------------------------
(* Properties of the rank fusion engine, checked under SpecFuse *)

IdsOf(rows)  == {rows[i].document_id : i \in DOMAIN rows}
IdList(rows) == [i \in DOMAIN rows |-> rows[i].document_id]
InputIds     == IdsOf(text_results) \cup IdsOf(vector_results)

\* the fused score of a candidate under the current parameters
ScoreOf(d) ==
    Score(d, Lookup(text_results), Lookup(vector_results), weight_text, weight_vector, rrf_k)

\* C1: with limit >= 0, every id fuse_rrf returns occurs in one of the two input lists, and
\* with limit >= the number of distinct input ids the returned ids are the union of the two
\* input id sets (an id present in only one list is included).
C1_OutputIdsAreUnion ==
    (phase = "fuse_done" /\ limit >= 0) =>
        /\ IdsOf(fused_results) \subseteq InputIds
        /\ limit >= Cardinality(InputIds) => IdsOf(fused_results) = InputIds

C1_Witness ==
    /\ phase = "fuse_done"
    /\ limit >= Cardinality(InputIds)
    /\ \E d \in IdsOf(fused_results) :
          d \in IdsOf(text_results) /\ d \notin IdsOf(vector_results)
    /\ \E d \in IdsOf(fused_results) :
          d \in IdsOf(vector_results) /\ d \notin IdsOf(text_results)

\* The contributions a list can make to the score of d according to the formula of the
\* specification: weight / (rrf_k + rank) for a 1-based position of d in the list, 0 if absent.
Contributions(rows, d, w) ==
    IF d \in IdsOf(rows)
       THEN {Rat(w, rrf_k + i) : i \in {j \in DOMAIN rows : rows[j].document_id = d}}
       ELSE {Zero}

\* C2: the score by which fuse_rrf orders a document is weight_text / (rrf_k + rank_text) if
\* it is in the text list (else 0) plus weight_vector / (rrf_k + rank_vector) if it is in the
\* vector list (else 0), ranks 1-based; text [5,3], vector [3,9], weights 1, rrf_k = 60 give
\* doc3 = 1/62 + 1/61, doc5 = 1/61, doc9 = 1/62 and the fused order [3, 5, 9].
C2_ScoreFormula ==
    phase = "fuse_done" =>
        /\ \A i \in DOMAIN fused :
              \E a \in Contributions(text_results, fused[i].document_id, weight_text),
                 b \in Contributions(vector_results, fused[i].document_id, weight_vector) :
                    fused[i].score = RatAdd(a, b)
        /\ ( /\ IdList(text_results) = <<5, 3>> /\ IdList(vector_results) = <<3, 9>>
             /\ weight_text = 1 /\ weight_vector = 1 /\ rrf_k = 60 )
           => /\ IdList(fused) = <<3, 5, 9>>
              /\ fused[1].score = [n |-> 123, d |-> 3782]      \* 1/62 + 1/61
              /\ fused[2].score = [n |-> 1, d |-> 61]
              /\ fused[3].score = [n |-> 1, d |-> 62]
              /\ limit >= 0 => IdList(fused_results) = Prefix(<<3, 5, 9>>, limit)

C2_Witness ==
    /\ phase = "fuse_done"
    /\ IdList(text_results) = <<5, 3>> /\ IdList(vector_results) = <<3, 9>>
    /\ weight_text = 1 /\ weight_vector = 1 /\ rrf_k = 60 /\ limit = 3
    /\ IdList(fused_results) = <<3, 5, 9>>
    /\ fused_results[1].rrf_score = 3252247      \* round(1/62 + 1/61, 8) = 0.03252247

\* C3: the output is the first `limit` entries of the whole candidate union sorted by
\* descending fused score: consecutive entries have non-increasing score, no candidate left
\* out has a strictly greater score than one that is in, and with limit >= 0 exactly
\* min(limit, number of candidates) entries are returned.
C3_SortedThenTruncated ==
    phase = "fuse_done" =>
        /\ \A i \in DOMAIN fused_results :
              i + 1 \in DOMAIN fused_results =>
                 RatLe(ScoreOf(fused_results[i + 1].document_id),
                       ScoreOf(fused_results[i].document_id))
        /\ \A out \in InputIds \ IdsOf(fused_results), in \in IdsOf(fused_results) :
              ~ RatLt(ScoreOf(in), ScoreOf(out))
        /\ limit >= 0 =>
              Len(fused_results) = IF limit < Cardinality(InputIds)
                                      THEN limit ELSE Cardinality(InputIds)

C3_Witness ==
    /\ phase = "fuse_done"
    /\ Len(fused_results) = 2 /\ limit = 2
    /\ \E out \in InputIds \ IdsOf(fused_results) :
          /\ RatLt(ScoreOf(out), ScoreOf(fused_results[2].document_id))
          /\ RatLt(ScoreOf(fused_results[2].document_id), ScoreOf(fused_results[1].document_id))


-----------------------------------------------------------------------------
(* Properties of the metrics engine, checked under SpecMetrics (C7: SpecMetricsAndSummary) *)

InUnitInterval(x) == RatLe(Zero, x) /\ RatLe(x, One)

NoRepeats(seq) == \A i, j \in DOMAIN seq : seq[i] = seq[j] => i = j

\* the positions of results that hold a relevant id
HitPositions == {i \in DOMAIN results : \E j \in DOMAIN relevant : relevant[j] = results[i]}

\* every value of every MetricResult the aggregator returns, per query and per Condition
AggregatedValues ==
    {summary[key][name] : <<key, name>> \in
        UNION {{<<key2, name2>> : name2 \in DOMAIN summary[key2]} : key2 \in DOMAIN summary}}
    \cup
    {per_query[key][name] : <<key, name>> \in
        UNION {{<<key2, name2>> : name2 \in DOMAIN per_query[key2]} : key2 \in DOMAIN per_query}}

\* C7 as stated: every metric value (MRR, recall@k, nDCG@k, k >= 1), per query and per
\* Condition, lies in [0,1] for every results list and relevance list, results lists that
\* repeat a document id included.
C7_Original_AlwaysInUnitInterval ==
    /\ (phase = "metric_done" /\ k >= 1) => InUnitInterval(ret[1])
    /\ phase \in {"summarized", "formatted"} => \A x \in AggregatedValues : InUnitInterval(x)

\* C7 as amended: every metric value (MRR, recall@k, nDCG@k, k >= 1), per query and per
\* Condition, lies in [0,1] for every relevance list and every results list that holds no
\* document id more than once.
C7_InUnitIntervalWithoutRepeats ==
    /\ (phase = "metric_done" /\ k >= 1 /\ NoRepeats(results)) => InUnitInterval(ret[1])
    /\ ( /\ phase \in {"summarized", "formatted"}
         /\ \A i \in DOMAIN rankings : NoRepeats(rankings[i].results) )
       => \A x \in AggregatedValues : InUnitInterval(x)

C7_Witness ==
    /\ phase = "metric_done" /\ called = "ndcg_at_k"
    /\ k >= 2 /\ NoRepeats(results) /\ ~ NoRepeats(relevant)
    /\ Cardinality(HitPositions) >= 1
    /\ RatLt(Zero, ret[1]) /\ RatLt(ret[1], One)

\* C8: for k >= 1 and a non-empty relevance list, recall_at_k is the number of positions
\* among the first min(k, len(results)) of results whose id is in relevant, divided by
\* len(relevant); a list shorter than k is scored on what it has;
\* results [5,3,9,1,7], relevant {1,3}, k = 3 give 0.5.
C8_RecallDefinition ==
    (phase = "metric_done" /\ called = "recall_at_k" /\ k >= 1 /\ relevant # <<>>) =>
        /\ LET last == IF k < Len(results) THEN k ELSE Len(results)
           IN  ret[1] = Rat(Cardinality(HitPositions \cap 1..last), Len(relevant))
        /\ (results = <<5, 3, 9, 1, 7>> /\ relevant = <<1, 3>> /\ k = 3)
              => ret[1] = [n |-> 1, d |-> 2]

C8_Witness ==
    /\ phase = "metric_done" /\ called = "recall_at_k"
    /\ results = <<5, 3, 9, 1, 7>> /\ relevant = <<1, 3>> /\ k = 3
    /\ ret = Some([n |-> 1, d |-> 2])

\* C9: mrr is 1/r for the 1-based position r of the first element of results that is in
\* relevant, whatever hits follow, and it is 0 exactly when no element of results is in
\* relevant.
C9_MrrFirstHit ==
    (phase = "metric_done" /\ called = "mrr") =>
        /\ HitPositions # {} =>
              \E r \in HitPositions :
                 /\ \A h \in HitPositions : r <= h
                 /\ ret[1] = Rat(1, r)
        /\ ret[1] = Zero <=> HitPositions = {}

C9_Witness ==
    /\ phase = "metric_done" /\ called = "mrr"
    /\ HitPositions = {2, 3}
    /\ ret = Some([n |-> 1, d |-> 2])

\* C10: for k >= 1 and a non-empty relevance list, ndcg_at_k is 1 whenever the first k
\* elements of results are exactly the first k elements of relevant, in the same order.
C10_NdcgOneOnIdealPrefix ==
    ( /\ phase = "metric_done" /\ called = "ndcg_at_k"
      /\ k >= 1 /\ relevant # <<>>
      /\ Prefix(results, k) = Prefix(relevant, k) )
    => ret[1] = One

C10_Witness ==
    /\ phase = "metric_done" /\ called = "ndcg_at_k"
    /\ k = 2 /\ Len(relevant) = 2 /\ Len(results) = 3
    /\ Prefix(results, k) = Prefix(relevant, k)
    /\ ret = Some(One)


-----------------------------------------------------------------------------
(* Properties of the evaluation aggregator, checked under SpecSummary *)

Summarized == phase \in {"summarized", "formatted"}

Registered(ranking) == ranking.slug \in DOMAIN queries

\* the per-query MetricResult of a record whose query is registered
MetricResultOf(ranking) == QueryResult(queries, ranking, k_values)

RECURSIVE TotalOf(_, _)
TotalOf(records, name) ==
    IF records = <<>> THEN Zero
    ELSE RatAdd(IF Registered(Head(records)) THEN MetricResultOf(Head(records))[name] ELSE Zero,
                TotalOf(Tail(records), name))

CountRegistered(records) == Cardinality({i \in DOMAIN records : Registered(records[i])})

\* C4: for every Condition group built by summarize_rankings, each metric value of the
\* Condition's summary is the arithmetic mean of that metric over exactly the records of the
\* group whose query slug is registered (n records give sum / n); two records of one
\* Condition with per-query MRR 1.0 and 0.5 give summary MRR 0.75.
C4_SummaryIsMean ==
    Summarized =>
        \A g \in DOMAIN grouped :
            LET key == grouped[g].key
                n   == CountRegistered(grouped[g].runs)
            IN  /\ n > 0 => /\ key \in DOMAIN summary
                            /\ DOMAIN summary[key] = MetricNames(k_values)
                /\ key \in DOMAIN summary =>
                      \A name \in DOMAIN summary[key] :
                         /\ n > 0
                         /\ summary[key][name] = RatDivInt(TotalOf(grouped[g].runs, name), n)
                /\ ( /\ Len(grouped[g].runs) = 2 /\ n = 2
                     /\ MetricResultOf(grouped[g].runs[1])["MRR"] = One
                     /\ MetricResultOf(grouped[g].runs[2])["MRR"] = [n |-> 1, d |-> 2] )
                   => summary[key]["MRR"] = [n |-> 3, d |-> 4]

C4_Witness ==
    /\ phase = "summarized"
    /\ Len(grouped) = 1 /\ Len(grouped[1].runs) = 2
    /\ Registered(grouped[1].runs[1]) /\ Registered(grouped[1].runs[2])
    /\ grouped[1].runs[1].slug # grouped[1].runs[2].slug
    /\ MetricResultOf(grouped[1].runs[1])["MRR"] = One
    /\ MetricResultOf(grouped[1].runs[2])["MRR"] = [n |-> 1, d |-> 2]
    /\ summary[grouped[1].key]["MRR"] = [n |-> 3, d |-> 4]

\* C5: a Condition with zero contributing queries (every record of it has an unregistered
\* query slug) never appears as a key of the summary returned by summarize_rankings, and
\* format_markdown renders no zero or placeholder row for it.
C5_EmptyConditionOmitted ==
    \A g \in DOMAIN grouped :
        CountRegistered(grouped[g].runs) = 0 =>
            /\ Summarized => grouped[g].key \notin DOMAIN summary
            /\ phase = "formatted" => grouped[g].key \notin DOMAIN markdown.rows

SameCondition(a, b) ==
    /\ a.docset = b.docset
    /\ a.mode = b.mode
    /\ a.model = b.model
    /\ a.rrf_weights = b.rrf_weights

InSameGroup(a, b) ==
    \E g \in DOMAIN grouped : a \in Range(grouped[g].runs) /\ b \in Range(grouped[g].runs)

\* C6: summarize_rankings puts two RankingRecords into the same Condition group if and only
\* if their docset, mode, model and fusion-weight pair all compare equal, for all string
\* values of docset, mode and model (model absent versus present included).
C6_GroupedIffSameCondition ==
    Summarized =>
        \A i, j \in DOMAIN rankings :
            InSameGroup(rankings[i], rankings[j]) <=> SameCondition(rankings[i], rankings[j])

\* the records of a list whose query slug is registered, in list order
RegisteredOnly(records) == SelectSeq(records, Registered)

\* C11: a record whose query slug has no registered QueryInfo is skipped without error: it
\* has no entry in per_query and adds to no mean, so that summary and per_query are those
\* of the remaining records (a Condition left without records keeps no metric at all).
C11_UnknownSlugSkipped ==
    Summarized =>
        LET rest == SummarizeRankings(queries, RegisteredOnly(rankings), k_values)
        IN  /\ per_query = rest.per_query
            /\ DOMAIN rest.summary \subseteq DOMAIN summary
            /\ \A key \in DOMAIN summary :
                  summary[key] = IF key \in DOMAIN rest.summary
                                    THEN rest.summary[key] ELSE EmptyDict
            /\ \A i \in DOMAIN rankings :
                  ~ Registered(rankings[i]) =>
                     (RankingKey(rankings[i]) \o "|" \o rankings[i].slug) \notin DOMAIN per_query

C11_Witness ==
    /\ phase = "summarized"
    /\ Len(grouped) = 1 /\ Len(grouped[1].runs) = 2
    /\ ~ Registered(grouped[1].runs[1]) /\ Registered(grouped[1].runs[2])
    /\ summary[grouped[1].key]["MRR"] = MetricResultOf(grouped[1].runs[2])["MRR"]
    /\ summary[grouped[1].key]["MRR"] = [n |-> 1, d |-> 2]
    /\ Cardinality(DOMAIN per_query) = 1

\* info.relevant_ids.get(ranking.docset, []) of a record whose query is registered
RelevantFor(ranking) ==
    LET rel_ids == queries[ranking.slug].relevant_ids
    IN  IF ranking.docset \in DOMAIN rel_ids THEN rel_ids[ranking.docset] ELSE <<>>

EmptyRelevance(ranking) == Registered(ranking) /\ RelevantFor(ranking) = <<>>

RECURSIVE TotalOfJudged(_, _)
TotalOfJudged(records, name) ==
    IF records = <<>> THEN Zero
    ELSE RatAdd(IF Registered(Head(records)) /\ ~ EmptyRelevance(Head(records))
                   THEN MetricResultOf(Head(records))[name] ELSE Zero,
                TotalOfJudged(Tail(records), name))

\* C12: with an empty relevance list recall_at_k, ndcg_at_k (every k) and mrr return 0.0;
\* in summarize_rankings a record whose query is registered but has no relevant ids for the
\* record's docset gets an all-zero MetricResult that is counted in the Condition's mean
\* (the divisor counts it, the sum gains nothing from it).
C12_EmptyRelevanceCountsAsZero ==
    /\ (phase = "metric_done" /\ relevant = <<>>) => ret = Some(Zero)
    /\ Summarized =>
          \A g \in DOMAIN grouped :
             (\E i \in DOMAIN grouped[g].runs : EmptyRelevance(grouped[g].runs[i])) =>
                LET key == grouped[g].key
                    n   == CountRegistered(grouped[g].runs)
                IN  /\ \A i \in DOMAIN grouped[g].runs :
                          EmptyRelevance(grouped[g].runs[i]) =>
                             \A name \in MetricNames(k_values) :
                                MetricResultOf(grouped[g].runs[i])[name] = Zero
                    /\ key \in DOMAIN summary
                    /\ DOMAIN summary[key] = MetricNames(k_values)
                    /\ \A name \in MetricNames(k_values) :
                          summary[key][name] = RatDivInt(TotalOfJudged(grouped[g].runs, name), n)

C12_Witness ==
    /\ phase = "summarized"
    /\ Len(grouped) = 1 /\ Len(grouped[1].runs) = 2
    /\ EmptyRelevance(grouped[1].runs[1])
    /\ Registered(grouped[1].runs[2]) /\ MetricResultOf(grouped[1].runs[2])["MRR"] = One
    /\ summary[grouped[1].key]["MRR"] = [n |-> 1, d |-> 2]
    /\ summary[grouped[1].key]["recall@2"] = [n |-> 1, d |-> 2]

-----------------------------------------------------------------------------
(* Two calls of fuse_rrf on the same candidate lists, checked under SpecFuse *)

\* the place of an id in the traversal of doc_ids
TraversalIndex(d) ==
    LET order == DocIds(LookupKeys(text_results), LookupKeys(vector_results))
    IN  CHOOSE i \in DOMAIN order : order[i] = d

\* a comes before b in a list of rows
Before(rows, a, b) ==
    \E i, j \in DOMAIN rows : i < j /\ rows[i].document_id = a /\ rows[j].document_id = b

C15_MonotoneInWeightText ==
    (phase = "fuse_again" /\ rrf_k > 0 /\ weight_text >= 0
        /\ fuse_again.weight_text > weight_text) =>
        \A a \in IdsOf(text_results), b \in IdsOf(vector_results) \ IdsOf(text_results) :
            Before(fused, a, b) => Before(fuse_again.fused, a, b)

C15_Witness ==
    /\ phase = "fuse_again" /\ fuse_again.weight_text > weight_text
    /\ \E a \in IdsOf(text_results), b \in IdsOf(vector_results) \ IdsOf(text_results) :
          /\ Before(fused, a, b) /\ Before(fuse_again.fused, a, b)
          /\ ScoreOf(a) = ScoreOf(b)
          /\ weight_vector > 0
    /\ \E a \in IdsOf(text_results), b \in IdsOf(vector_results) \ IdsOf(text_results) :
          Before(fused, b, a) /\ Before(fuse_again.fused, a, b)

-----------------------------------------------------------------------------
(* Relations between calls of the metrics engine, checked under SpecMetrics *)

\* the ideal DCG of ndcg_at_k: relevant[:k] scored against itself
IdealDcg(rel, kk) == DcgAtK(Prefix(rel, kk), Prefix(rel, kk), kk)

\* C16: for fixed results and relevance lists recall_at_k is non-decreasing in k: the value
\* returned for k is at least the value for every k1 with 1 <= k1 <= k.
C16_RecallMonotoneInK ==
    (phase = "metric_done" /\ called = "recall_at_k" /\ k >= 1) =>
        \A k1 \in 1..k : RatLe(RecallAtK(results, relevant, k1), ret[1])

C16_Witness ==
    /\ phase = "metric_done" /\ called = "recall_at_k" /\ k = 3
    /\ RatLt(RecallAtK(results, relevant, 1), RecallAtK(results, relevant, 2))
    /\ RecallAtK(results, relevant, 2) = ret[1]
    /\ Len(results) = 3 /\ NoRepeats(results)

\* C17: with binary relevance the order of the relevance list is immaterial: for every
\* results list and every k >= 1, every ordering of the relevance list gives the same ideal
\* DCG and the same ndcg_at_k value as the list that was passed.
C17_RelevanceOrderImmaterial ==
    (phase = "metric_done" /\ called = "ndcg_at_k" /\ k >= 1) =>
        \A other \in Orderings(relevant) :
            /\ IdealDcg(other, k) = IdealDcg(relevant, k)
            /\ NdcgAtK(results, other, k) = ret[1]

C17_Witness ==
    /\ phase = "metric_done" /\ called = "ndcg_at_k"
    /\ k = 1 /\ Len(relevant) = 2 /\ relevant[1] # relevant[2]
    /\ results # <<>> /\ results[1] = relevant[2]
    /\ ret = Some(One)
    /\ NdcgAtK(results, <<relevant[2], relevant[1]>>, k) = One

-----------------------------------------------------------------------------
(* Order of the ranking records, checked under SpecReorder *)

\* C14: no aggregate statistic depends on processing order: for any permutation of the
\* records passed to summarize_rankings (same queries, same k values) the summary has the
\* same set of Condition keys and the same mean for every metric of every Condition.
C14_SummaryOrderIndependent ==
    phase = "resummarized" =>
        /\ DOMAIN summary_f64_reordered = DOMAIN summary_f64
        /\ \A key \in DOMAIN summary_f64 :
              /\ DOMAIN summary_f64_reordered[key] = DOMAIN summary_f64[key]
              /\ \A name \in DOMAIN summary_f64[key] :
                    summary_f64_reordered[key][name] = summary_f64[key][name]

-----------------------------------------------------------------------------
(* The embedding cache of one run, checked under SpecRunEval *)

\* the calls of embed_query main has completed or is about to make
EmbedKey == <<models[model_index], selected_queries[query_index].query>>

\* C18: within one run the embedding provider is requested at most once per (model, query
\* text) pair; once a pair is in the cache, embed_query for it makes no request and returns
\* the cached vector; and an entry enters the cache only in a call that made a request, did
\* not fail, and got a vector whose length is the registered dims of the model.
C18_EmbeddingCache ==
    /\ [](/\ \A i, j \in DOMAIN embed_requests :
                embed_requests[i] = embed_requests[j] => i = j
          /\ \A key \in DOMAIN embedding_cache :
                /\ Len(embedding_cache[key]) = model_dims[key[1]]
                /\ key \in Range(embed_requests))
    /\ [][/\ (phase = "run_embed" /\ EmbedKey \in DOMAIN embedding_cache) =>
                /\ embed_requests' = embed_requests
                /\ embedding_cache' = embedding_cache
                /\ vector' = Some(embedding_cache[EmbedKey])
                /\ phase' = "run_vector"
          /\ embedding_cache' # embedding_cache =>
                /\ phase = "run_embed" /\ phase' = "run_vector"
                /\ embed_requests' = Append(embed_requests, EmbedKey)
                /\ DOMAIN embedding_cache' = DOMAIN embedding_cache \cup {EmbedKey}
                /\ EmbedKey \notin DOMAIN embedding_cache
                /\ Len(embedding_cache'[EmbedKey]) = model_dims[EmbedKey[1]]
                /\ vector' = Some(embedding_cache'[EmbedKey])
                /\ \A key \in DOMAIN embedding_cache :
                      embedding_cache'[key] = embedding_cache[key]]_vars

\* an embed_query call was answered from the cache: more calls returned than requests made
C18_Witness ==
    /\ phase = "run_vector"
    /\ (query_index - 1) * Len(models) + model_index > Len(embed_requests)
    /\ vector = Some(embedding_cache[EmbedKey])

-----------------------------------------------------------------------------
(* The records of one run, checked under SpecRunEval *)

\* the loops of main have ended without an exception
LoopsDone == phase \in {"run_write", "run_config", "run_done"}

\* how many records of jsonl_records belong to a query and a Condition
RecordCount(slug, mode, model, rrf) ==
    Cardinality({i \in DOMAIN jsonl_records :
                    /\ jsonl_records[i].query_slug = slug
                    /\ jsonl_records[i].mode = mode
                    /\ jsonl_records[i].model = model
                    /\ jsonl_records[i].rrf = rrf})

Enabled01(mode) == IF mode \in modes THEN 1 ELSE 0

RrfOf(weight_pair) ==
    Some([k |-> ArgsRrfK, weights |-> [text |-> weight_pair[1], vector |-> weight_pair[2]]])

Distinct(seq) == \A i, j \in DOMAIN seq : seq[i] = seq[j] => i = j

\* C20: in a run with unique query slugs, distinct models and distinct weight pairs, when
\* the loops have ended jsonl_records holds exactly one text record per selected query if
\* text is enabled, exactly one vector record per query and model if vector is enabled,
\* exactly one hybrid record per query, model and weight pair if hybrid is enabled, and
\* nothing else; at no time does it hold a record of a mode that is not enabled.
C20_OneRecordPerQueryAndCondition ==
    ( /\ Distinct([i \in DOMAIN selected_queries |-> selected_queries[i].slug])
      /\ Distinct(models)
      /\ Distinct(weights) )
    => /\ \A i \in DOMAIN jsonl_records : jsonl_records[i].mode \in modes
       /\ LoopsDone =>
            /\ \A qi \in DOMAIN selected_queries :
                  LET slug == selected_queries[qi].slug
                  IN  /\ RecordCount(slug, "text", None, None) = Enabled01("text")
                      /\ \A mi \in DOMAIN models :
                            /\ RecordCount(slug, "vector", Some(models[mi]), None)
                                  = Enabled01("vector")
                            /\ \A wi \in DOMAIN weights :
                                  RecordCount(slug, "hybrid", Some(models[mi]),
                                              RrfOf(weights[wi])) = Enabled01("hybrid")
            /\ Len(jsonl_records) =
                  Len(selected_queries)
                  * (Enabled01("text") + Len(models) * Enabled01("vector")
                     + Len(models) * Len(weights) * Enabled01("hybrid"))

\* a finished run of all three modes over two queries, two models and two weight pairs
C20_Witness ==
    /\ phase = "run_done"
    /\ modes = {"text", "vector", "hybrid"}
    /\ Len(selected_queries) = 2 /\ Len(models) = 2 /\ Distinct(models) /\ Len(weights) = 2
    /\ Len(jsonl_records) = 14
    /\ outdir["rankings.jsonl"] = jsonl_records

-----------------------------------------------------------------------------
(* Failures of calc_metrics while it loads its inputs, checked under SpecCalc *)

HasMalformedLine == \E i \in DOMAIN rankings_jsonl : rankings_jsonl[i].kind = "malformed"
NoRecordLine     == \A i \in DOMAIN rankings_jsonl : rankings_jsonl[i].kind # "record"
NoQueries        == data_json = <<>>

\* the Ranking of every record line, in line order
AllRecordLines ==
    LET recs == SelectSeq(rankings_jsonl, LAMBDA line : line.kind = "record")
    IN  [i \in DOMAIN recs |-> ToRanking(recs[i].payload)]

\* C19: when the data file has no queries, the rankings file has no records, or one of its
\* lines is malformed JSON, the run never gets past loading: it ends in the error state with
\* neither metrics.json nor metrics.md written.  A file is written only after both loads
\* have succeeded, and the rankings list is either still empty or the Ranking of every
\* record line of the file: a malformed line never leaves a partial list.
C19_LoadFailureWritesNothing ==
    /\ (NoQueries \/ NoRecordLine \/ HasMalformedLine) =>
          /\ phase \in {"calc_start", "calc_queries", "calc_failed"}
          /\ DOMAIN outdir = {}
          /\ rankings = <<>>
    /\ phase = "calc_failed" => exit_status # None /\ DOMAIN outdir = {} /\ rankings = <<>>
    /\ DOMAIN outdir # {} =>
          /\ exit_status = None
          /\ queries = LoadQueries(data_json).queries /\ DOMAIN queries # {}
          /\ rankings = AllRecordLines /\ rankings # <<>>
    /\ rankings \in {<<>>, AllRecordLines}

\* the queries were loaded, the first line of the rankings file is a record, a later line is
\* malformed, and the run has ended in the error state
C19_Witness ==
    /\ phase = "calc_failed"
    /\ DOMAIN queries # {}
    /\ Len(rankings_jsonl) >= 2
    /\ rankings_jsonl[1].kind = "record"
    /\ HasMalformedLine
    /\ exit_status = Some("JSONDecodeError")

-----------------------------------------------------------------------------
(* Shape of the fused list, checked under SpecFuse *)

\* C21: for limit >= 0 fuse_rrf returns exactly min(limit, number of distinct document ids
\* in the two input lists) entries, no document id twice (also when an input list repeats an
\* id), and their rank fields are 1, 2, ..., n in output order.
C21_LengthDistinctRanks ==
    (phase = "fuse_done" /\ limit >= 0) =>
        /\ Len(fused_results) = IF limit < Cardinality(InputIds) THEN limit
                                                                ELSE Cardinality(InputIds)
        /\ \A i, j \in DOMAIN fused_results :
              fused_results[i].document_id = fused_results[j].document_id => i = j
        /\ \A i \in DOMAIN fused_results : fused_results[i].rank = i

\* an input list repeats an id, both lists share an id, and the limit does not cut
C21_Witness ==
    /\ phase = "fuse_done"
    /\ \E i, j \in DOMAIN text_results :
          i # j /\ text_results[i].document_id = text_results[j].document_id
    /\ IdsOf(text_results) \cap IdsOf(vector_results) # {}
    /\ limit > Cardinality(InputIds)
    /\ Len(fused_results) = 2

-----------------------------------------------------------------------------
(* per_query against the summary, checked under SpecSummary *)

\* the slugs that have an entry of per_query under a Condition key
PerQuerySlugs(key) == {sl \in DOMAIN queries : (key \o "|" \o sl) \in DOMAIN per_query}

RECURSIVE SumEntries(_, _, _)
SumEntries(key, name, slugs) ==
    IF slugs = {} THEN Zero
    ELSE LET sl == CHOOSE x \in slugs : TRUE
         IN  RatAdd(per_query[key \o "|" \o sl][name], SumEntries(key, name, slugs \ {sl}))

\* C22: per_query holds exactly one entry for every contributing record (registered slug),
\* keyed by Condition key and query slug, so that for every Condition the summary mean of
\* each metric is the mean of that metric over the per_query entries of the Condition, for
\* any list of records, also one where two records share Condition and slug.
C22_PerQueryEntryPerContributor ==
    Summarized =>
        /\ Cardinality(DOMAIN per_query) = Len(Contributors(queries, rankings))
        /\ \A key \in DOMAIN summary : \A name \in DOMAIN summary[key] :
              /\ PerQuerySlugs(key) # {}
              /\ summary[key][name] =
                    RatDivInt(SumEntries(key, name, PerQuerySlugs(key)),
                              Cardinality(PerQuerySlugs(key)))

-----------------------------------------------------------------------------
(* The text searches of one run, checked under SpecRunEval *)

\* the text searches made for a query, in the order they were made
SearchesOf(slug) == SelectSeq(text_searches, LAMBDA call : call.slug = slug)

\* text_rank of a document in a list of ids: its 1-based position, None if it is not there
TextRankIn(ids, doc_id) ==
    IF \E r \in DOMAIN ids : ids[r] = doc_id
       THEN Some(CHOOSE r \in DOMAIN ids : ids[r] = doc_id)
       ELSE None

\* C23: for each selected query the text search is invoked at most once, whatever the
\* number of models and weight pairs and whatever it returns (an empty list included), and
\* not at all when only the vector mode is enabled; every hybrid fusion for the query uses
\* the candidate list of that single call.
C23_TextSearchOncePerQuery ==
    /\ \A qi \in DOMAIN selected_queries :
          Len(SearchesOf(selected_queries[qi].slug)) <= 1
    /\ modes = {"vector"} => text_searches = <<>>
    /\ \A i \in DOMAIN jsonl_records :
          jsonl_records[i].mode = "hybrid" =>
             LET calls == SearchesOf(jsonl_records[i].query_slug)
                 rows  == jsonl_records[i].results
             IN  /\ calls # <<>>
                 /\ \A r \in DOMAIN rows :
                       rows[r].text_rank = TextRankIn(calls[1].answer.ids,
                                                      rows[r].document_id)

-----------------------------------------------------------------------------
(* The files of one run, checked under SpecRunEval *)

\* the records a list holds for a query and a Condition
RecordsIn(records, slug, mode, model, rrf) ==
    {i \in DOMAIN records :
        /\ records[i].query_slug = slug /\ records[i].mode = mode
        /\ records[i].model = model /\ records[i].rrf = rrf}

\* a list of records covers every selected query under every enabled mode, model and pair
CoversAllQueries(records) ==
    \A qi \in DOMAIN selected_queries :
       LET slug == selected_queries[qi].slug
       IN  /\ "text" \in modes => RecordsIn(records, slug, "text", None, None) # {}
           /\ \A mi \in DOMAIN models :
                 /\ "vector" \in modes =>
                       RecordsIn(records, slug, "vector", Some(models[mi]), None) # {}
                 /\ "hybrid" \in modes =>
                       \A wi \in DOMAIN weights :
                          RecordsIn(records, slug, "hybrid", Some(models[mi]),
                                    RrfOf(weights[wi])) # {}

\* C24: rankings.jsonl is written all or nothing.  A run that fails at any step before the
\* write (no connection, unregistered model, embedding request error, embedding of the wrong
\* length, database error in a search) has written neither rankings.jsonl nor
\* run_config.json; rankings.jsonl, once written, holds the records of every selected query
\* for every enabled mode, model and weight pair; and run_config.json exists only when
\* rankings.jsonl does.
C24_RankingsAllOrNothing ==
    /\ phase = "run_failed" => exit_status # None /\ DOMAIN outdir = {}
    /\ phase \in {"run_start", "run_text", "run_embed", "run_vector", "run_hybrid",
                  "run_write"} => DOMAIN outdir = {}
    /\ "rankings.jsonl" \in DOMAIN outdir =>
          /\ exit_status = None
          /\ outdir["rankings.jsonl"] = jsonl_records
          /\ CoversAllQueries(outdir["rankings.jsonl"])
    /\ "run_config.json" \in DOMAIN outdir => "rankings.jsonl" \in DOMAIN outdir

\* the second query failed after the records of the first were collected: nothing is written
C24_Witness ==
    /\ phase = "run_failed"
    /\ query_index = 2
    /\ jsonl_records # <<>>
    /\ DOMAIN outdir = {}

-----------------------------------------------------------------------------
(* Properties of the document store *)

\* the last run has ended
RunEnded == phase = "store_idle" /\ runs_started > 0

\* the rows of document doc_id in a set of embedding rows
RowsOf(rows, doc_id) == {r \in rows : r.document_id = doc_id}

\* the last run was stopped by a provider answer of the wrong length
WrongLengthAbort ==
    /\ RunEnded
    /\ exit_status \in {Some("SystemExit: expected dims"), Some("RuntimeError: expected dims"),
                        Some("RuntimeError: dimensions are not consistent"),
                        Some("RuntimeError: embeddings for inputs")}

\* C25: after any sequence of add_document and embed_documents runs, successful or failed,
\* every stored embedding row has the dims registered for its model and a vector of that
\* length, and there is at most one row per (document, model); a provider answer of the
\* wrong length ends add_document with no document inserted and ends embed_documents with
\* no row of that batch written.  So a document added with one model and embedded with a
\* second one has one row per model, each with its model's dims.
C25_StoredDimsMatchRegistry ==
    /\ \A r \in document_embeddings :
          /\ r.model \in DOMAIN EmbeddingModels
          /\ r.dims = EmbeddingModels[r.model]
          /\ Len(r.embedding) = r.dims
          /\ r.document_id \in documents
    /\ \A r1, r2 \in document_embeddings :
          (r1.document_id = r2.document_id /\ r1.model = r2.model) => r1 = r2
    /\ (WrongLengthAbort /\ script_args.script = "add_document") =>
          /\ documents = db_at_start.documents
          /\ document_embeddings = db_at_start.document_embeddings
    /\ (WrongLengthAbort /\ script_args.script = "embed_documents") =>
          \A doc_id \in Range(Chunk(embed_rows, batch_start, script_args.batch_size)) :
             RowsOf(document_embeddings, doc_id) = RowsOf(db_at_start.document_embeddings, doc_id)

\* a document was added with m1 and the next run embedded it with m2: it has one row for
\* each model, each with the dims of its model
C25_Witness ==
    /\ RunEnded
    /\ script_args.script = "embed_documents" /\ script_args.model = "m2"
    /\ previous_run # None
    /\ previous_run[1].args.script = "add_document" /\ previous_run[1].args.model = "m1"
    /\ \E d \in documents :
          /\ \E r \in document_embeddings :
                r.document_id = d /\ r.model = "m1" /\ r.dims = 2 /\ r.created_at = 1
          /\ \E r \in document_embeddings :
                r.document_id = d /\ r.model = "m2" /\ r.dims = 3 /\ r.created_at = 2
          /\ Cardinality(RowsOf(document_embeddings, d)) = 2

\* the last run started is one of embed_documents.py without --force and with limit 0, for
\* a registered model
ResumableRun ==
    /\ runs_started > 0
    /\ script_args.script = "embed_documents"
    /\ ~ script_args.force /\ script_args.limit = 0
    /\ script_args.model \in DOMAIN EmbeddingModels

\* the documents of database db with no embedding for the model, or with one whose stored
\* dims are not the registered ones
NotYetStored(db, model) ==
    {d \in db.documents :
        \/ ~ \E r \in db.document_embeddings : r.document_id = d /\ r.model = model
        \/ \E r \in db.document_embeddings :
              r.document_id = d /\ r.model = model /\ r.dims # EmbeddingModels[model]}

\* the run selected exactly the documents not yet stored when it started, in id order
SelectsNotYetStored ==
    ResumableRun =>
       /\ Range(embed_rows) = NotYetStored(db_at_start, script_args.model)
       /\ Len(embed_rows) = Cardinality(Range(embed_rows))
       /\ \A i, j \in DOMAIN embed_rows : i < j => embed_rows[i] < embed_rows[j]

\* at any point of the run, and after a failure, the batches before batch_start are stored
\* with this run's embedding, and every other row is as it was when the run started
CommittedBatchesStay ==
    ResumableRun =>
       /\ \A i \in DOMAIN embed_rows :
             i <= batch_start =>
                \E r \in document_embeddings :
                   /\ r.document_id = embed_rows[i] /\ r.model = script_args.model
                   /\ r.dims = EmbeddingModels[script_args.model]
                   /\ r.created_at = runs_started
       /\ \A r \in document_embeddings :
             r \in db_at_start.document_embeddings
             \/ /\ r.model = script_args.model
                /\ \E i \in DOMAIN embed_rows : i <= batch_start /\ embed_rows[i] = r.document_id
       /\ \A r \in db_at_start.document_embeddings :
             r \in document_embeddings
             \/ /\ r.model = script_args.model
                /\ \E i \in DOMAIN embed_rows : i <= batch_start /\ embed_rows[i] = r.document_id

\* the run before the last one was a run of embed_documents.py for the same model, without
\* --force and with limit 0
AfterResumableRun ==
    /\ ResumableRun
    /\ previous_run # None
    /\ previous_run[1].args.script = "embed_documents"
    /\ previous_run[1].args.model = script_args.model
    /\ ~ previous_run[1].args.force /\ previous_run[1].args.limit = 0

\* a re-run after a failed run leaves alone what the failed run stored: the documents it
\* selects had no valid row when it started, and it asks the provider for nothing else
RerunEmbedsOnlyMissing ==
    (AfterResumableRun /\ previous_run[1].exit_status # None) =>
       /\ \A d \in Range(embed_rows) : d \in NotYetStored(db_at_start, script_args.model)
       /\ \A r \in db_at_start.document_embeddings :
             (r.model = script_args.model /\ r.dims = EmbeddingModels[r.model])
                => r \in document_embeddings
       /\ provider_calls <= Len(embed_rows)

\* a run after a run that ended without an error asks the provider nothing and changes no row
NothingLeftAfterSuccess ==
    (AfterResumableRun /\ previous_run[1].exit_status = None) =>
       /\ provider_calls = 0
       /\ document_embeddings = db_at_start.document_embeddings

\* the same for a run after a run with a batch size of at least 1
NothingLeftAfterSuccessWithBatches ==
    (AfterResumableRun /\ previous_run[1].exit_status = None
                       /\ previous_run[1].args.batch_size >= 1) =>
       /\ provider_calls = 0
       /\ document_embeddings = db_at_start.document_embeddings

\* C26: embed_documents without --force and with limit 0 is resumable and idempotent: it
\* selects exactly the documents with no embedding for the model or with stored dims other
\* than the registered ones, commits after each batch so that a failure in a later batch
\* leaves the earlier batches stored, a re-run after such a failure embeds only the
\* documents not yet stored, and a run after a fully successful run calls the embedding
\* provider zero times and changes no row.
C26_ResumableAndIdempotent ==
    /\ SelectsNotYetStored
    /\ CommittedBatchesStay
    /\ RerunEmbedsOnlyMissing
    /\ NothingLeftAfterSuccess

\* the same statement for runs whose batch size is at least 1
C26_ResumableWithBatchSizeAtLeastOne ==
    /\ SelectsNotYetStored
    /\ CommittedBatchesStay
    /\ RerunEmbedsOnlyMissing
    /\ NothingLeftAfterSuccessWithBatches

\* a run failed in its second batch with the first one stored, and the re-run embedded the
\* remaining document only
C26_WitnessResumed ==
    /\ AfterResumableRun /\ RunEnded
    /\ previous_run[1].exit_status # None /\ previous_run[1].provider_calls = 2
    /\ exit_status = None /\ provider_calls = 1
    /\ embed_rows = <<2>>
    /\ \E r \in document_embeddings : r.document_id = 1 /\ r.model = script_args.model
                                      /\ r.created_at = 1
    /\ \E r \in document_embeddings : r.document_id = 2 /\ r.model = script_args.model
                                      /\ r.created_at = 2

\* a run stored every document and the run after it found nothing to embed
C26_WitnessIdempotent ==
    /\ AfterResumableRun /\ RunEnded
    /\ previous_run[1].exit_status = None /\ previous_run[1].provider_calls >= 1
    /\ exit_status = None /\ provider_calls = 0 /\ embed_rows = <<>>
    /\ document_embeddings # {}

\* a run selected a document whose stored dims are not the registered ones and stored it anew
C26_WitnessStaleDims ==
    /\ ResumableRun /\ RunEnded /\ exit_status = None
    /\ \E r \in db_at_start.document_embeddings :
          /\ r.model = script_args.model /\ r.dims # EmbeddingModels[r.model]
          /\ r.document_id \in Range(embed_rows)
          /\ \E s \in document_embeddings :
                /\ s.document_id = r.document_id /\ s.model = r.model
                /\ s.dims = EmbeddingModels[s.model] /\ s.created_at = runs_started

\* a run with a negative batch size ended without an error and stored nothing, and the run
\* after it had to ask the provider
C26_WitnessNegativeBatchSize ==
    /\ AfterResumableRun
    /\ previous_run[1].exit_status = None /\ previous_run[1].args.batch_size < 0
    /\ previous_run[1].provider_calls = 0
    /\ provider_calls >= 1
    /\ document_embeddings # db_at_start.document_embeddings

=============================================================================
